---- MODULE Spec2Model ----
(***************************************************************************)
(* Pomodoro session state machine of src/app/page.tsx (HomePage) with the  *)
(* helpers of src/unnamed/part_000 (lib/utils) and the useLocalStorage     *)
(* hook of src/app/layout.tsx.                                             *)
(*                                                                         *)
(* A step of the model is one task of the event loop.  A user command      *)
(* (ToggleRunning, ResetTimer, SettingsSubmit) is a discrete event: its    *)
(* render is synchronous and the passive effects it leaves due are flushed *)
(* before the task ends.  A timer callback (Tick) only renders; the        *)
(* effects it leaves due run in a later task (FlushEffects), as do the     *)
(* effects of the first render.  Spec lets a command in only after these   *)
(* effects, the usual order; SpecEarly and SpecMountEarly also let a       *)
(* command in before them (toggleBeforeEffects, resetBeforeEffects).       *)
(***************************************************************************)
EXTENDS Integers, Sequences, FiniteSets

VARIABLES
    state,          \* PomodoroState: sessionType, timeLeft, isRunning, pomodorosSinceLongBreak
    settings,       \* PomodoroSettings held by useLocalStorage(SETTINGS_STORAGE_KEY)
    stats,          \* PomodoroStats held by useLocalStorage(STATS_STORAGE_KEY)
    previousTime,   \* previousTime.current
    intervals,      \* window.setInterval tick sources scheduled and not cleared
    dirty,          \* effects whose dependencies changed in the last render
    today,          \* the day todayKey() returns
    clock,          \* the date and time of the device, and its time zone
    nextId,         \* number of SessionLog ids handed out so far
    owed,           \* expiries (timeLeft > 0 -> 0) minus handleSessionComplete calls
    cycleWork,      \* Work completions so far in a scenario (SpecCycle, SpecHistory)
    alerts,         \* what the sound and the notification of the last
                    \* handleSessionComplete did (SpecAlerts); with the
                    \* notification permission and what was notified
                    \* (SpecNotify)
    storage,        \* window.localStorage: the items of the two keys
    inbox,          \* storage events dispatched to this document, not yet handled
    peer,           \* another document of the origin: its copy of the stats
                    \* and the storage events dispatched to it (SpecTabs)
    lastOp          \* the step taken last: "mount", "tick", "complete" (a task that
                    \* called handleSessionComplete) or "other"

vars == <<state, settings, stats, previousTime, intervals, dirty, today,
          clock, nextId, owed, cycleWork, alerts, storage, inbox, peer, lastOp>>

\* a tick source is scheduled
intervalActive == intervals > 0

----------------------------------------------------------------------------
(* Bounds of the model *)

MaxMinutes == 2
MaxInterval == 2
MaxCompletions == 1
MaxTicks == 3

(* Program constants *)

SecondsPerMinute == 60
DurationMin == 1
DurationMax == 180
DefaultWorkDuration == 25
HistoryCap == 50

----------------------------------------------------------------------------
(* Helpers of lib/utils *)

Max(a, b) == IF a >= b THEN a ELSE b
Min(a, b) == IF a <= b THEN a ELSE b

\* Variant of minutesToSeconds: without Math.max(0, .)
minutesToSeconds_noMax(minutes) == minutes * SecondsPerMinute

\* Math.max(0, Math.round(minutes * 60)); minutes are integers here, so
\* Math.round is exact.
minutesToSeconds(minutes) == Max(0, minutes * SecondsPerMinute)

SessionTypes == {"work", "short_break", "long_break"}

\* A Date is the calendar day and the hour it shows in the device's local
\* time, with the time zone of the device: its offset from UTC in hours
\* (east positive) before and after a change of offset that takes place in
\* the small hours of day SwitchDay.  A day key is the number of the
\* calendar day its YYYY-MM-DD text names.
HoursPerDay == 24
FirstDay == 7
SwitchDay == 8
MaxDays == 3

\* New York, UTC, London in spring, London in autumn, Berlin
Zones ==
    { [before |-> o[1], after |-> o[2]] :
        o \in {<<0 - 5, 0 - 4>>, <<0, 0>>, <<0, 1>>, <<1, 0>>, <<1, 2>>} }

UTC == [before |-> 0, after |-> 0]

\* the offset in force at local midnight of a day
offsetAtMidnight(zone, day) == IF day > SwitchDay THEN zone.after ELSE zone.before

\* date.setHours(0, 0, 0, 0)
startOfDay(date) == [date EXCEPT !.hour = 0]

\* date.setDate(date.getDate() + n)
addDays(date, n) == [date EXCEPT !.day = @ + n]

\* todayKey: local midnight of the date, then the date part of its
\* toISOString(), which is the calendar day in UTC
todayKey(date) ==
    LET copy == startOfDay(date)
    IN (copy.day * HoursPerDay + copy.hour
          - offsetAtMidnight(copy.zone, copy.day)) \div HoursPerDay

\* number of points of getWeekSeries (i = 6 down to 0)
WeekLength == 7

\* getWeekSeries, oldest first; the label is the weekday of the local date
getWeekSeries(byDay, endDate) ==
    LET end == startOfDay(endDate)
    IN [n \in 1 .. WeekLength |->
          LET date == addDays(end, 0 - (WeekLength - n))
              key == todayKey(date)
          IN [key |-> key,
              label |-> date.day % WeekLength,
              value |-> IF key \in DOMAIN byDay THEN byDay[key] ELSE 0]]

RECURSIVE streakFrom(_, _, _)
\* the loop of calculateStreak: `end` walks back a day at a time
streakFrom(byDay, end, streak) ==
    LET key == todayKey(end)
    IN IF key \notin DOMAIN byDay \/ byDay[key] = 0 THEN streak
       ELSE streakFrom(byDay, addDays(end, 0 - 1), streak + 1)

calculateStreak(byDay, reference) == streakFrom(byDay, startOfDay(reference), 0)

\* The text of a day key, as toISOString() writes the date, a sequence of
\* characters.  Day 0 is 2023-12-24, and the days of the model lie in that
\* December and the January after it.
EpochYear == 2023
EpochMonth == 12
EpochDay == 24
DaysInEpochMonth == 31

DigitChars == <<"0", "1", "2", "3", "4", "5", "6", "7", "8", "9">>

RECURSIVE Decimal(_)
\* String(n), n >= 0
Decimal(n) ==
    IF n < 10 THEN <<DigitChars[n + 1]>>
    ELSE Decimal(n \div 10) \o <<DigitChars[(n % 10) + 1]>>

\* the number zero-padded to a width
Pad(n, width) ==
    LET digits == Decimal(n)
    IN [i \in 1 .. (width - Len(digits)) |-> "0"] \o digits

\* YYYY-MM-DD of a day key
DateText(key) ==
    LET d == EpochDay + key
        inEpochMonth == d <= DaysInEpochMonth
        year == IF inEpochMonth THEN EpochYear ELSE EpochYear + 1
        month == IF inEpochMonth THEN EpochMonth ELSE 1
        day == IF inEpochMonth THEN d ELSE d - DaysInEpochMonth
    IN Pad(year, 4) \o <<"-">> \o Pad(month, 2) \o <<"-">> \o Pad(day, 2)

\* collation order of the characters of a date: the hyphen, then the digits
CharRank(c) ==
    IF c = "-" THEN 0 ELSE CHOOSE i \in 1 .. Len(DigitChars) : DigitChars[i] = c

RECURSIVE localeCompare(_, _)
\* a.localeCompare(b): negative, 0 or positive
localeCompare(a, b) ==
    IF a = <<>> /\ b = <<>> THEN 0
    ELSE IF a = <<>> THEN 0 - 1
    ELSE IF b = <<>> THEN 1
    ELSE IF CharRank(Head(a)) # CharRank(Head(b))
         THEN CharRank(Head(a)) - CharRank(Head(b))
    ELSE localeCompare(Tail(a), Tail(b))

RECURSIVE sortEntries(_)
\* .sort(([a], [b]) => a.localeCompare(b)) of the entries [date, count]
sortEntries(entries) ==
    IF entries = {} THEN <<>>
    ELSE LET first == CHOOSE e \in entries :
                        \A o \in entries : localeCompare(e[1], o[1]) <= 0
         IN <<first>> \o sortEntries(entries \ {first})

RECURSIVE reverseEntries(_)
reverseEntries(entries) ==
    IF entries = {} THEN <<>>
    ELSE LET first == CHOOSE e \in entries :
                        \A o \in entries : localeCompare(e[1], o[1]) >= 0
         IN <<first>> \o reverseEntries(entries \ {first})

RECURSIVE join(_, _)
\* lines.join(separator), the lines and the result sequences of characters
join(lines, separator) ==
    IF lines = <<>> THEN <<>>
    ELSE IF Len(lines) = 1 THEN lines[1]
    ELSE lines[1] \o <<separator>> \o join(Tail(lines), separator)

\* Variant of createCsv: the rows in descending order of date
createCsv_descending(st) ==
    LET headers == << <<"Date">>, <<"Pomodoros Completed">> >>
        entries == { <<DateText(key), st.byDay[key]>> : key \in DOMAIN st.byDay }
        sorted == reverseEntries(entries)
        rows == [i \in 1 .. Len(sorted) |->
                   sorted[i][1] \o <<",">> \o Decimal(sorted[i][2])]
    IN join(<<join(headers, ",")>> \o rows, "\n")

\* createCsv: the header, then a row `${date},${count}` per entry of byDay
\* sorted by date, joined by newlines
createCsv(st) ==
    LET headers == << <<"Date">>, <<"Pomodoros Completed">> >>
        entries == { <<DateText(key), st.byDay[key]>> : key \in DOMAIN st.byDay }
        sorted == sortEntries(entries)
        rows == [i \in 1 .. Len(sorted) |->
                   sorted[i][1] \o <<",">> \o Decimal(sorted[i][2])]
    IN join(<<join(headers, ",")>> \o rows, "\n")

\* the device clock of the timer scenarios: midday in UTC
Noon == [day |-> 1, hour |-> 12, zone |-> UTC]

sessionDurationMinutes(type, s) ==
    CASE type = "work" -> s.workDuration
      [] type = "short_break" -> s.shortBreakDuration
      [] type = "long_break" -> s.longBreakDuration
      [] OTHER -> s.workDuration

currentDurationSeconds(st, s) ==
    minutesToSeconds(sessionDurationMinutes(st.sessionType, s))

\* A JavaScript number as the progress expression meets it: NaN, an
\* infinity, or the ratio num / den of two integers, den > 0.
NaN == [kind |-> "nan"]
Ratio(num, den) == [kind |-> "ratio", num |-> num, den |-> den]

\* a / b for integers a >= 0, b >= 0
Divide(a, b) ==
    IF b # 0 THEN Ratio(a, b)
    ELSE IF a = 0 THEN NaN
    ELSE [kind |-> "infinity", negative |-> FALSE]

\* 1 - x
OneMinus(x) ==
    IF x.kind = "nan" THEN NaN
    ELSE IF x.kind = "infinity" THEN [x EXCEPT !.negative = ~@]
    ELSE Ratio(x.den - x.num, x.den)

\* x || 0: NaN and 0 are falsy
OrZero(x) ==
    IF x.kind = "nan" \/ (x.kind = "ratio" /\ x.num = 0) THEN Ratio(0, 1) ELSE x

\* Math.max(0, x)
MathMax0(x) ==
    IF x.kind = "nan" THEN NaN
    ELSE IF x.kind = "infinity" THEN (IF x.negative THEN Ratio(0, 1) ELSE x)
    ELSE IF x.num < 0 THEN Ratio(0, 1) ELSE x

\* Math.min(1, x)
MathMin1(x) ==
    IF x.kind = "nan" THEN NaN
    ELSE IF x.kind = "infinity" THEN (IF x.negative THEN x ELSE Ratio(1, 1))
    ELSE IF x.num > x.den THEN Ratio(1, 1) ELSE x

\* Variant of progress: without `|| 0`
progress_noOrZero(st, s) ==
    MathMin1(MathMax0(OneMinus(Divide(st.timeLeft, currentDurationSeconds(st, s)))))

\* progress of HomePage
progress(st, s) ==
    MathMin1(MathMax0(OrZero(OneMinus(
        Divide(st.timeLeft, currentDurationSeconds(st, s))))))

----------------------------------------------------------------------------
(* Settings dialog *)

\* SettingField.onChange: clamp to DURATION_LIMITS, then round
SettingField(parsed) == Min(DurationMax, Max(DurationMin, parsed))

\* onChange of the interval field: Math.max(1, value) on the clamped value
IntervalField(parsed) == Max(1, SettingField(parsed))

\* values typed into the number inputs
MinuteInputs == {0, 1, MaxMinutes}
IntervalInputs == {0, 1, MaxInterval}

\* settings a save of the dialog can have stored
StoredSettings ==
    { [workDuration |-> SettingField(w),
       shortBreakDuration |-> SettingField(sb),
       longBreakDuration |-> SettingField(lb),
       longBreakInterval |-> IntervalField(n),
       autoStartNext |-> a] :
         w \in MinuteInputs, sb \in MinuteInputs, lb \in MinuteInputs,
         n \in IntervalInputs, a \in BOOLEAN }

\* the same with the two switches of the alerts, which the timer's steps
\* do not read
PomodoroSettings ==
    { [workDuration |-> s.workDuration,
       shortBreakDuration |-> s.shortBreakDuration,
       longBreakDuration |-> s.longBreakDuration,
       longBreakInterval |-> s.longBreakInterval,
       autoStartNext |-> s.autoStartNext,
       soundEnabled |-> sound,
       notificationsEnabled |-> notifications] :
         s \in StoredSettings, sound \in BOOLEAN, notifications \in BOOLEAN }

\* pendingSettings at submit time: the dialog opens on the current settings
\* and one field is edited, its value passed through its onChange
PendingSettings(s) ==
    { [s EXCEPT !.workDuration = SettingField(v)] : v \in MinuteInputs }
    \cup { [s EXCEPT !.shortBreakDuration = SettingField(v)] : v \in MinuteInputs }
    \cup { [s EXCEPT !.longBreakDuration = SettingField(v)] : v \in MinuteInputs }
    \cup { [s EXCEPT !.longBreakInterval = IntervalField(v)] : v \in IntervalInputs }
    \cup { [s EXCEPT !.autoStartNext = v] : v \in BOOLEAN }

defaultStats == [byDay |-> <<>>, history |-> <<>>]

\* defaultSettings (soundEnabled and notificationsEnabled are not modelled)
defaultSettings ==
    [workDuration |-> DefaultWorkDuration,
     shortBreakDuration |-> 5,
     longBreakDuration |-> 15,
     longBreakInterval |-> 4,
     autoStartNext |-> TRUE]

----------------------------------------------------------------------------
(* useLocalStorage *)

SETTINGS_STORAGE_KEY == "pomodoro-settings-v1"
STATS_STORAGE_KEY == "pomodoro-stats-v1"

\* What getItem returns and what the newValue of a storage event holds:
\* null (no item), the empty string, a text that is not JSON, or the JSON
\* text of a value.
NoItem == [kind |-> "null"]
EmptyText == [kind |-> "empty"]
Malformed == [kind |-> "malformed"]

\* JSON.stringify of a value made of numbers, booleans, strings, arrays and
\* plain objects
JSONstringify(value) == [kind |-> "json", value |-> value]

\* JSON.parse: the value of a JSON text, a SyntaxError for any other text
JSONparse(text) ==
    IF text.kind = "json" THEN [ok |-> TRUE, value |-> text.value]
    ELSE [ok |-> FALSE]

\* `item ? ... : ...`: null and the empty string are falsy
Truthy(item) == item.kind \notin {"null", "empty"}

\* initializer of useState in useLocalStorage; the catch returns initialValue
initialRead(item, initialValue) ==
    IF ~Truthy(item) THEN initialValue
    ELSE LET parsed == JSONparse(item)
         IN IF parsed.ok THEN parsed.value ELSE initialValue

\* Variant of setValue: no try/catch around setItem
setValue_noCatch(prev, next, item, accepted) ==
    [value |-> IF accepted THEN next ELSE prev,
     item |-> IF accepted THEN JSONstringify(next) ELSE item]

\* the updater of setValue with result next: the stored value it returns and
\* the item it leaves.  setItem throws when the storage refuses the write
\* (accepted = FALSE); the catch logs and the updater returns next.
setValue(prev, next, item, accepted) ==
    [value |-> next,
     item |-> IF accepted THEN JSONstringify(next) ELSE item]

\* Variant of handleStorage: no comparison of event.key with the hook's key
handleStorage_anyKey(prev, key, initialValue, event) ==
    IF ~Truthy(event.newValue) THEN initialValue
    ELSE LET parsed == JSONparse(event.newValue)
         IN IF parsed.ok THEN parsed.value ELSE prev

\* handleStorage of the hook of `key`: the stored value after the event.  A
\* SyntaxError of JSON.parse leaves the listener before setStoredValue is
\* called.
handleStorage(prev, key, initialValue, event) ==
    IF event.key # key THEN prev
    ELSE IF ~Truthy(event.newValue) THEN initialValue
    ELSE LET parsed == JSONparse(event.newValue)
         IN IF parsed.ok THEN parsed.value ELSE prev

\* the items a document leaves that holds these values and never recorded
\* a completion when stats = defaultStats
Persisted(s, st) ==
    [key \in {SETTINGS_STORAGE_KEY, STATS_STORAGE_KEY} |->
        IF key = SETTINGS_STORAGE_KEY THEN JSONstringify(s)
        ELSE IF st = defaultStats THEN NoItem
        ELSE JSONstringify(st)]

\* no other document of the origin is open
noPeer == [open |-> FALSE, stats |-> defaultStats, inbox |-> <<>>]

----------------------------------------------------------------------------
(* State updaters *)

\* Variants of completeUpdater, each with one slip
completeUpdater_gt(prev, s) ==
    LET incremented == prev.pomodorosSinceLongBreak + 1
        long == incremented > s.longBreakInterval
        sessionType ==
            IF prev.sessionType = "work"
            THEN (IF long THEN "long_break" ELSE "short_break")
            ELSE "work"
        count ==
            IF prev.sessionType = "work"
            THEN (IF long THEN 0 ELSE incremented)
            ELSE prev.pomodorosSinceLongBreak
    IN [sessionType |-> sessionType,
        timeLeft |-> minutesToSeconds(sessionDurationMinutes(sessionType, s)),
        isRunning |-> s.autoStartNext,
        pomodorosSinceLongBreak |-> count]

completeUpdater_noReset(prev, s) ==
    LET incremented == prev.pomodorosSinceLongBreak + 1
        long == incremented >= s.longBreakInterval
        sessionType ==
            IF prev.sessionType = "work"
            THEN (IF long THEN "long_break" ELSE "short_break")
            ELSE "work"
        count ==
            IF prev.sessionType = "work"
            THEN incremented
            ELSE prev.pomodorosSinceLongBreak
    IN [sessionType |-> sessionType,
        timeLeft |-> minutesToSeconds(sessionDurationMinutes(sessionType, s)),
        isRunning |-> s.autoStartNext,
        pomodorosSinceLongBreak |-> count]

completeUpdater_resetOnBreak(prev, s) ==
    LET incremented == prev.pomodorosSinceLongBreak + 1
        long == incremented >= s.longBreakInterval
        sessionType ==
            IF prev.sessionType = "work"
            THEN (IF long THEN "long_break" ELSE "short_break")
            ELSE "work"
        count ==
            IF prev.sessionType = "work"
            THEN (IF long THEN 0 ELSE incremented)
            ELSE 0
    IN [sessionType |-> sessionType,
        timeLeft |-> minutesToSeconds(sessionDurationMinutes(sessionType, s)),
        isRunning |-> s.autoStartNext,
        pomodorosSinceLongBreak |-> count]

completeUpdater_prevDuration(prev, s) ==
    LET incremented == prev.pomodorosSinceLongBreak + 1
        long == incremented >= s.longBreakInterval
        sessionType ==
            IF prev.sessionType = "work"
            THEN (IF long THEN "long_break" ELSE "short_break")
            ELSE "work"
        count ==
            IF prev.sessionType = "work"
            THEN (IF long THEN 0 ELSE incremented)
            ELSE prev.pomodorosSinceLongBreak
    IN [sessionType |-> sessionType,
        timeLeft |-> minutesToSeconds(sessionDurationMinutes(prev.sessionType, s)),
        isRunning |-> s.autoStartNext,
        pomodorosSinceLongBreak |-> count]

completeUpdater_alwaysRun(prev, s) ==
    LET incremented == prev.pomodorosSinceLongBreak + 1
        long == incremented >= s.longBreakInterval
        sessionType ==
            IF prev.sessionType = "work"
            THEN (IF long THEN "long_break" ELSE "short_break")
            ELSE "work"
        count ==
            IF prev.sessionType = "work"
            THEN (IF long THEN 0 ELSE incremented)
            ELSE prev.pomodorosSinceLongBreak
    IN [sessionType |-> sessionType,
        timeLeft |-> minutesToSeconds(sessionDurationMinutes(sessionType, s)),
        isRunning |-> TRUE,
        pomodorosSinceLongBreak |-> count]

\* Variant of completeUpdater: the next session starts by itself only
\* with the sound on
completeUpdater_soundOn(prev, s) ==
    LET incremented == prev.pomodorosSinceLongBreak + 1
        long == incremented >= s.longBreakInterval
        sessionType ==
            IF prev.sessionType = "work"
            THEN (IF long THEN "long_break" ELSE "short_break")
            ELSE "work"
        count ==
            IF prev.sessionType = "work"
            THEN (IF long THEN 0 ELSE incremented)
            ELSE prev.pomodorosSinceLongBreak
    IN [sessionType |-> sessionType,
        timeLeft |-> minutesToSeconds(sessionDurationMinutes(sessionType, s)),
        isRunning |-> s.autoStartNext /\ s.soundEnabled,
        pomodorosSinceLongBreak |-> count]

\* Variant of completeUpdater: the next session never starts by itself
completeUpdater_paused(prev, s) ==
    LET incremented == prev.pomodorosSinceLongBreak + 1
        long == incremented >= s.longBreakInterval
        sessionType ==
            IF prev.sessionType = "work"
            THEN (IF long THEN "long_break" ELSE "short_break")
            ELSE "work"
        count ==
            IF prev.sessionType = "work"
            THEN (IF long THEN 0 ELSE incremented)
            ELSE prev.pomodorosSinceLongBreak
    IN [sessionType |-> sessionType,
        timeLeft |-> minutesToSeconds(sessionDurationMinutes(sessionType, s)),
        isRunning |-> FALSE,
        pomodorosSinceLongBreak |-> count]

\* updater of handleSessionComplete
completeUpdater(prev, s) ==
    LET incremented == prev.pomodorosSinceLongBreak + 1
        long == incremented >= s.longBreakInterval
        sessionType ==
            IF prev.sessionType = "work"
            THEN (IF long THEN "long_break" ELSE "short_break")
            ELSE "work"
        count ==
            IF prev.sessionType = "work"
            THEN (IF long THEN 0 ELSE incremented)
            ELSE prev.pomodorosSinceLongBreak
    IN [sessionType |-> sessionType,
        timeLeft |-> minutesToSeconds(sessionDurationMinutes(sessionType, s)),
        isRunning |-> s.autoStartNext,
        pomodorosSinceLongBreak |-> count]

\* Variants of tickUpdater, each with one slip
tickUpdater_late(prev) ==
    IF ~prev.isRunning THEN prev
    ELSE IF prev.timeLeft <= 0
         THEN [prev EXCEPT !.timeLeft = 0, !.isRunning = FALSE]
         ELSE [prev EXCEPT !.timeLeft = prev.timeLeft - 1]

tickUpdater_noGuard(prev) ==
    IF prev.timeLeft <= 1
    THEN [prev EXCEPT !.timeLeft = 0, !.isRunning = FALSE]
    ELSE [prev EXCEPT !.timeLeft = prev.timeLeft - 1]

tickUpdater_keepRunning(prev) ==
    IF ~prev.isRunning THEN prev
    ELSE IF prev.timeLeft <= 1
         THEN [prev EXCEPT !.timeLeft = 0]
         ELSE [prev EXCEPT !.timeLeft = prev.timeLeft - 1]

\* updater of the setInterval callback
tickUpdater(prev) ==
    IF ~prev.isRunning THEN prev
    ELSE IF prev.timeLeft <= 1
         THEN [prev EXCEPT !.timeLeft = 0, !.isRunning = FALSE]
         ELSE [prev EXCEPT !.timeLeft = prev.timeLeft - 1]

\* Variant of recomputeUpdater: the work duration whatever the phase
recomputeUpdater_work(prev, s) ==
    IF prev.isRunning THEN prev
    ELSE [prev EXCEPT !.timeLeft = minutesToSeconds(s.workDuration)]

\* Variant of recomputeUpdater: never above the duration, never reset to it
recomputeUpdater_clamp(prev, s) ==
    IF prev.isRunning THEN prev
    ELSE [prev EXCEPT !.timeLeft = Min(prev.timeLeft, currentDurationSeconds(prev, s))]

\* Variant of recomputeUpdater: also while running
recomputeUpdater_always(prev, s) ==
    [prev EXCEPT !.timeLeft = currentDurationSeconds(prev, s)]

\* updater of the effect on the three duration settings
recomputeUpdater(prev, s) ==
    IF prev.isRunning THEN prev
    ELSE [prev EXCEPT !.timeLeft = currentDurationSeconds(prev, s)]

\* Variant of toggleUpdater: no restart from 0
toggleUpdater_noRestart(prev, s) ==
    [prev EXCEPT !.isRunning = ~prev.isRunning]

\* updater of toggleRunning
toggleUpdater_alwaysRestart(prev, s) ==
    IF ~prev.isRunning
    THEN [prev EXCEPT
            !.timeLeft = minutesToSeconds(sessionDurationMinutes(prev.sessionType, s)),
            !.isRunning = TRUE]
    ELSE [prev EXCEPT !.isRunning = FALSE]

toggleUpdater(prev, s) ==
    LET nextRunning == ~prev.isRunning
    IN IF prev.timeLeft = 0 /\ nextRunning
       THEN [prev EXCEPT !.timeLeft = currentDurationSeconds(prev, s),
                         !.isRunning = nextRunning]
       ELSE [prev EXCEPT !.isRunning = nextRunning]

\* Variants of resetState, each with one slip
resetState_default(s) ==
    [sessionType |-> "work",
     timeLeft |-> minutesToSeconds(DefaultWorkDuration),
     isRunning |-> FALSE,
     pomodorosSinceLongBreak |-> 0]

resetState_zero(s) ==
    [sessionType |-> "work",
     timeLeft |-> 0,
     isRunning |-> FALSE,
     pomodorosSinceLongBreak |-> 0]

\* state set by resetTimer
resetState(s) ==
    [sessionType |-> "work",
     timeLeft |-> minutesToSeconds(s.workDuration),
     isRunning |-> FALSE,
     pomodorosSinceLongBreak |-> 0]

\* Variant of ShouldComplete: || for &&
ShouldComplete_or(prevTime, timeLeft) == prevTime # 0 \/ timeLeft = 0

\* condition of the effect on [state.timeLeft, handleSessionComplete]
ShouldComplete(prevTime, timeLeft) == prevTime # 0 /\ timeLeft = 0

\* Variant of statsUpdater: slice(-50), the last 50 of the list
statsUpdater_sliceEnd(prev, key, id, s) ==
    LET result == (IF key \in DOMAIN prev.byDay THEN prev.byDay[key] ELSE 0) + 1
        entry == [id |-> id, type |-> "work", completedAt |-> key,
                  durationMinutes |-> sessionDurationMinutes("work", s)]
        all == <<entry>> \o prev.history
        newHistory == SubSeq(all, Len(all) - Min(HistoryCap, Len(all)) + 1, Len(all))
    IN [byDay |-> [k \in (DOMAIN prev.byDay) \cup {key} |->
                      IF k = key THEN result ELSE prev.byDay[k]],
        history |-> newHistory]

\* Variant of statsUpdater: byDay rebuilt with today's key only
statsUpdater_onlyToday(prev, key, id, s) ==
    LET result == (IF key \in DOMAIN prev.byDay THEN prev.byDay[key] ELSE 0) + 1
        entry == [id |-> id, type |-> "work", completedAt |-> key,
                  durationMinutes |-> sessionDurationMinutes("work", s)]
        newHistory == SubSeq(<<entry>> \o prev.history, 1,
                             Min(HistoryCap, Len(prev.history) + 1))
    IN [byDay |-> [k \in {key} |-> result],
        history |-> newHistory]

\* updater passed to setStats by handleSessionComplete
statsUpdater(prev, key, id, s) ==
    LET result == (IF key \in DOMAIN prev.byDay THEN prev.byDay[key] ELSE 0) + 1
        entry == [id |-> id, type |-> "work", completedAt |-> key,
                  durationMinutes |-> sessionDurationMinutes("work", s)]
        newHistory == SubSeq(<<entry>> \o prev.history, 1,
                             Min(HistoryCap, Len(prev.history) + 1))
    IN [byDay |-> [k \in (DOMAIN prev.byDay) \cup {key} |->
                      IF k = key THEN result ELSE prev.byDay[k]],
        history |-> newHistory]

----------------------------------------------------------------------------
(* The tick source *)

\* cleanup of the effect on [state.isRunning]: clearInterval of the interval
\* the last run of the effect created
intervalCleanup(n) == IF n > 0 THEN n - 1 ELSE n

\* Variant of intervalEffect: no cleanup before the effect runs again
intervalEffect_noCleanup(n, isRunning) == IF isRunning THEN n + 1 ELSE n

\* the effect on [state.isRunning]: the cleanup of its last run, then
\* setInterval when isRunning
intervalEffect(n, isRunning) ==
    IF isRunning THEN intervalCleanup(n) + 1 ELSE intervalCleanup(n)

\* no sound or notification attempted yet
noAlerts == [sound |-> "none", notification |-> "none"]

\* what playAlertSound can do: return at its first line (sound off), play,
\* fail inside ensureAudioContext or the oscillator calls, or wait for ever
\* on audioContext.resume()
SoundOutcomes == {"skipped", "played", "rejected", "pending"}

\* what sendNotification can do: return before the constructor (off, no
\* Notification, permission not granted), show, or have the constructor throw
NotificationOutcomes == {"skipped", "shown", "throws"}

\* void playAlertSound(): an async function, so whatever happens inside is
\* the fate of its promise, which the caller drops
playAlertSound(outcome) == [did |-> outcome, thrown |-> FALSE]

\* Variant of sendNotification: the constructor outside try/catch
sendNotification_noCatch(outcome) ==
    [did |-> outcome, thrown |-> outcome = "throws"]

\* sendNotification: new Notification(...) inside try/catch
sendNotification(outcome) ==
    [did |-> IF outcome = "throws" THEN "caught" ELSE outcome,
     thrown |-> FALSE]

----------------------------------------------------------------------------
(* Rendering *)

\* effects a render leaves due, from the dependency arrays
EffectsDue(old, new, handlerChanged, durationsChanged) ==
    (IF old.isRunning # new.isRunning THEN {"interval"} ELSE {})
    \cup (IF old.timeLeft # new.timeLeft \/ handlerChanged
          THEN {"completion"} ELSE {})
    \cup (IF durationsChanged THEN {"recompute"} ELSE {})

Expired(old, new) == IF old.timeLeft > 0 /\ new.timeLeft = 0 THEN 1 ELSE 0

\* the component between two renders: its state, refs and stores, the
\* effects due, and whether handleSessionComplete was called in this step
Component ==
    [st |-> state, pt |-> previousTime, ia |-> intervals, d |-> dirty,
     stats |-> stats, nextId |-> nextId, owed |-> owed, al |-> alerts,
     storage |-> storage, inbox |-> inbox, called |-> FALSE]

\* Variant of completedWorkSession: set whatever the session that ended
completedWorkSession_anyPhase(prev, eager) == eager

\* completedWorkSession as handleSessionComplete reads it after setState:
\* set by the updater on a work session, if the updater ran inside setState
completedWorkSession(prev, eager) == eager /\ prev.sessionType = "work"

\* handleSessionComplete will be called by the next flush
WillComplete(c) == "completion" \in c.d /\ ShouldComplete(c.pt, c.st.timeLeft)

\* one flush of the due effects in declaration order (interval, completion,
\* recompute) and the render of the updates they enqueue.  The updater of
\* handleSessionComplete runs inside setState (eager) or at the next render;
\* only in the first case are completedWorkSession and nextSession assigned
\* before handleSessionComplete reads them.
FlushOnce(c, s, eager, day) ==
    LET fires == WillComplete(c)
        s1 == IF fires THEN completeUpdater(c.st, s) ELSE c.st
        s2 == CHOOSE x \in {IF "recompute" \in c.d THEN recomputeUpdater(s1, s) ELSE s1} : TRUE
        recorded == fires /\ completedWorkSession(c.st, eager)
        written == setValue(c.stats, statsUpdater(c.stats, day, c.nextId + 1, s),
                            c.storage[STATS_STORAGE_KEY], TRUE)
    IN [st |-> s2,
        pt |-> IF "completion" \in c.d THEN c.st.timeLeft ELSE c.pt,
        ia |-> IF "interval" \in c.d THEN intervalEffect(c.ia, c.st.isRunning)
               ELSE c.ia,
        d |-> EffectsDue(c.st, s2, FALSE, FALSE),
        stats |-> IF recorded THEN written.value ELSE c.stats,
        storage |-> IF recorded
                    THEN [c.storage EXCEPT ![STATS_STORAGE_KEY] = written.item]
                    ELSE c.storage,
        nextId |-> IF recorded THEN c.nextId + 1 ELSE c.nextId,
        owed |-> c.owed + Expired(c.st, s2) - (IF fires THEN 1 ELSE 0),
        al |-> c.al,
        inbox |-> c.inbox,
        called |-> c.called \/ fires]

RECURSIVE Settle(_, _, _, _)
\* flushes until no effect is due
Settle(c, s, eager, day) ==
    IF c.d = {} THEN c
    ELSE LET n == CHOOSE x \in {FlushOnce(c, s, eager, day)} : TRUE
         IN Settle(n, s, eager, day)

\* a render of newState under newSettings
Render(newState, handlerChanged, durationsChanged) ==
    [Component EXCEPT
        !.st = newState,
        !.d = EffectsDue(state, newState, handlerChanged, durationsChanged),
        !.owed = owed + Expired(state, newState)]

Commit(cfg, op) ==
    \E c \in {cfg} :
    /\ state' = c.st
    /\ previousTime' = c.pt
    /\ intervals' = c.ia
    /\ dirty' = c.d
    /\ stats' = c.stats
    /\ nextId' = c.nextId
    /\ owed' = c.owed
    /\ cycleWork' = cycleWork
    /\ alerts' = c.al
    /\ storage' = c.storage
    /\ inbox' = c.inbox
    /\ peer' = peer
    /\ lastOp' = IF c.called THEN "complete" ELSE op

EagerChoices(c) == IF WillComplete(c) THEN BOOLEAN ELSE {FALSE}

Init ==
    /\ settings \in StoredSettings
    /\ stats = defaultStats
    /\ state = [sessionType |-> "work",
                timeLeft |-> minutesToSeconds(DefaultWorkDuration),
                isRunning |-> FALSE,
                pomodorosSinceLongBreak |-> 0]
    /\ previousTime = minutesToSeconds(DefaultWorkDuration)
    /\ intervals = 0
    /\ dirty = {"interval", "completion", "recompute"}
    /\ clock = Noon
    /\ today = todayKey(clock)
    /\ nextId = 0
    /\ owed = 0
    /\ cycleWork = 0
    /\ alerts = noAlerts
    /\ storage = Persisted(settings, stats)
    /\ inbox = <<>>
    /\ peer = noPeer
    /\ lastOp = "mount"

\* one firing of the setInterval callback, and the render it causes
Tick ==
    /\ dirty = {}
    /\ intervalActive
    /\ nextId < MaxCompletions \/ state.sessionType # "work" \/ state.timeLeft > 1
    /\ Commit(Render(tickUpdater(state), FALSE, FALSE), "tick")
    /\ UNCHANGED <<settings, today, clock>>

\* the passive effects of the last render, in a task of their own
FlushEffects ==
    /\ dirty # {}
    /\ \E eager \in EagerChoices(Component) :
         Commit(Settle(Component, settings, eager, today), "other")
    /\ UNCHANGED <<settings, today, clock>>

ToggleRunning ==
    /\ dirty = {}
    /\ LET c == Render(toggleUpdater(state, settings), FALSE, FALSE)
       IN \E eager \in EagerChoices(c) :
            Commit(Settle(c, settings, eager, today), "other")
    /\ UNCHANGED <<settings, today, clock>>

ResetTimer ==
    /\ dirty = {}
    /\ UNCHANGED <<settings, today, clock>>
    /\ LET c == Render(resetState(settings), FALSE, FALSE)
       IN \E eager \in EagerChoices(c) :
            Commit(Settle(c, settings, eager, today), "other")

\* Variant of DurationsChanged: any change of the settings
DurationsChanged_anySetting(old, new) == old # new

\* the dependencies of the recompute effect differ
DurationsChanged(old, new) ==
    \/ old.workDuration # new.workDuration
    \/ old.shortBreakDuration # new.shortBreakDuration
    \/ old.longBreakDuration # new.longBreakDuration

\* handleSettingsSubmit: setSettings(pendingSettings)
SettingsSubmit ==
    /\ dirty = {}
    /\ \E pending \in PendingSettings(settings) :
         LET written == setValue(settings, pending,
                                 storage[SETTINGS_STORAGE_KEY], TRUE)
             c == [Render(state, TRUE, DurationsChanged(settings, pending))
                      EXCEPT !.storage[SETTINGS_STORAGE_KEY] = written.item]
         IN /\ settings' = written.value
            /\ \E eager \in EagerChoices(c) :
                 Commit(Settle(c, pending, eager, today), "other")
    /\ UNCHANGED <<today, clock>>

Next ==
    \/ Tick
    \/ FlushEffects
    \/ ToggleRunning
    \/ ResetTimer
    \/ SettingsSubmit

Spec == Init /\ [][Next]_vars

----------------------------------------------------------------------------
(* The cycle scenario: successive completions from the reset state, the    *)
(* settings fixed.                                                         *)

CycleLength == 2 * MaxInterval

CycleInit ==
    /\ settings \in StoredSettings
    /\ stats = defaultStats
    /\ state = resetState(settings)
    /\ previousTime = state.timeLeft
    /\ intervals = 0
    /\ dirty = {}
    /\ clock = Noon
    /\ today = todayKey(clock)
    /\ nextId = 0
    /\ owed = 0
    /\ cycleWork = 0
    /\ alerts = noAlerts
    /\ storage = Persisted(settings, stats)
    /\ inbox = <<>>
    /\ peer = noPeer
    /\ lastOp = "other"

\* the state update of one call of handleSessionComplete
CycleComplete ==
    /\ state.sessionType = "work" => cycleWork < CycleLength
    /\ state' = completeUpdater(state, settings)
    /\ cycleWork' = IF state.sessionType = "work" THEN cycleWork + 1 ELSE cycleWork
    /\ previousTime' = state'.timeLeft
    /\ intervals' = IF state'.isRunning THEN 1 ELSE 0
    /\ lastOp' = "complete"
    /\ UNCHANGED <<settings, stats, dirty, today, clock, nextId, owed, alerts,
                   storage, inbox, peer>>

CycleNext == CycleComplete

SpecCycle == CycleInit /\ [][CycleNext]_vars

----------------------------------------------------------------------------
(* The component's life: Spec, and the component discarded at some point.  *)

\* HomePage is unmounted: the cleanup of the effects that ran
Unmount ==
    /\ dirty = {}
    /\ lastOp # "unmount"
    /\ intervals' = intervalCleanup(intervals)
    /\ lastOp' = "unmount"
    /\ UNCHANGED <<state, settings, stats, previousTime, dirty, today, clock, nextId,
                   owed, cycleWork, alerts, storage, inbox, peer>>

LifecycleNext ==
    \/ lastOp # "unmount" /\ Next
    \/ Unmount

SpecLifecycle == Init /\ [][LifecycleNext]_vars

----------------------------------------------------------------------------
(* handleSessionComplete with its sound and its notification, called by    *)
(* the effect of the render in which timeLeft reached 0.                    *)

AlertsInit ==
    /\ settings \in StoredSettings
    /\ \E type \in SessionTypes, count \in 0 .. MaxInterval - 1 :
         state = [sessionType |-> type, timeLeft |-> 0, isRunning |-> FALSE,
                  pomodorosSinceLongBreak |-> count]
    /\ stats = defaultStats
    /\ previousTime = 1
    /\ intervals = 1
    /\ dirty = {"interval", "completion"}
    /\ clock = Noon
    /\ today = todayKey(clock)
    /\ nextId = 0
    /\ owed = 1
    /\ cycleWork = 0
    /\ alerts = noAlerts
    /\ storage = Persisted(settings, stats)
    /\ inbox = <<>>
    /\ peer = noPeer
    /\ lastOp = "tick"

\* the effects of that render: handleSessionComplete calls setState, then
\* setStats, then playAlertSound and sendNotification.  An exception that
\* left the handler would leave the effect, and React would discard the
\* component with the update still queued.
completeWithAlerts ==
    /\ WillComplete(Component)
    /\ \E eager \in BOOLEAN, so \in SoundOutcomes, no \in NotificationOutcomes :
         LET sound == playAlertSound(so)
             note == sendNotification(no)
             did == [sound |-> sound.did, notification |-> note.did]
         IN IF sound.thrown \/ note.thrown
            THEN /\ alerts' = did
                 /\ intervals' = intervalCleanup(intervals)
                 /\ dirty' = {}
                 /\ lastOp' = "unmount"
                 /\ UNCHANGED <<state, stats, previousTime, nextId, owed,
                                cycleWork, storage, inbox, peer>>
            ELSE Commit([Settle(Component, settings, eager, today)
                           EXCEPT !.al = did], "other")
    /\ UNCHANGED <<settings, today, clock>>

AlertsNext == completeWithAlerts

SpecAlerts == AlertsInit /\ [][AlertsNext]_vars

----------------------------------------------------------------------------
(* The timer with the storage events of the stats key: another context     *)
(* changed the item, and handleStorage of useLocalStorage replaces the      *)
(* in-memory stats by the notified value.  The settings are those loaded    *)
(* at the start.                                                            *)

\* event.newValue ? JSON.parse(event.newValue) : initialValue, for an item
\* that was removed, or written by a context that has recorded nothing, or
\* one completion of its own the day before or today (id 0: the ids of
\* another context are not ours)
NotifiedStats ==
    {defaultStats}
    \cup { statsUpdater(defaultStats, day, 0, defaultSettings) : day \in {0, 1} }

\* handleStorage for STATS_STORAGE_KEY, and the render that follows
StatsStorage ==
    /\ dirty = {}
    /\ \E value \in NotifiedStats :
         LET newValue == Persisted(settings, value)[STATS_STORAGE_KEY]
             event == [key |-> STATS_STORAGE_KEY, newValue |-> newValue]
         IN /\ storage' = [storage EXCEPT ![STATS_STORAGE_KEY] = newValue]
            /\ stats' = handleStorage(stats, STATS_STORAGE_KEY, defaultStats, event)
    /\ lastOp' = "storage"
    /\ UNCHANGED <<state, settings, previousTime, intervals, dirty, today, clock,
                   nextId, owed, cycleWork, alerts, inbox, peer>>

StatsStorageNext ==
    \/ Tick
    \/ FlushEffects
    \/ ToggleRunning
    \/ ResetTimer
    \/ StatsStorage

SpecStatsStorage == Init /\ [][StatsStorageNext]_vars

----------------------------------------------------------------------------
(* The timer with the settings as useLocalStorage takes them from storage: *)
(* JSON.parse(item) at the first render and JSON.parse(event.newValue) in   *)
(* handleStorage, both cast to PomodoroSettings unchecked.                  *)

\* numbers a stored item can hold for a duration or the interval
RawNumbers == {0, 1}

\* parsed items of SETTINGS_STORAGE_KEY
RawSettings ==
    [workDuration : RawNumbers,
     shortBreakDuration : RawNumbers,
     longBreakDuration : RawNumbers,
     longBreakInterval : RawNumbers,
     autoStartNext : BOOLEAN]

SettingsStorageInit ==
    /\ settings \in RawSettings
    /\ stats = defaultStats
    /\ state = [sessionType |-> "work",
                timeLeft |-> minutesToSeconds(DefaultWorkDuration),
                isRunning |-> FALSE,
                pomodorosSinceLongBreak |-> 0]
    /\ previousTime = minutesToSeconds(DefaultWorkDuration)
    /\ intervals = 0
    /\ dirty = {"interval", "completion", "recompute"}
    /\ clock = Noon
    /\ today = todayKey(clock)
    /\ nextId = 0
    /\ owed = 0
    /\ cycleWork = 0
    /\ alerts = noAlerts
    /\ storage = Persisted(settings, stats)
    /\ inbox = <<>>
    /\ peer = noPeer
    /\ lastOp = "mount"

\* handleStorage for SETTINGS_STORAGE_KEY, and the render that follows
SettingsStorage ==
    /\ dirty = {}
    /\ \E value \in RawSettings :
         LET event == [key |-> SETTINGS_STORAGE_KEY,
                       newValue |-> JSONstringify(value)]
             c == [Render(state, TRUE, DurationsChanged(settings, value))
                      EXCEPT !.storage[SETTINGS_STORAGE_KEY] = event.newValue]
         IN /\ settings' = handleStorage(settings, SETTINGS_STORAGE_KEY,
                                         defaultSettings, event)
            /\ \E eager \in EagerChoices(c) :
                 Commit(Settle(c, value, eager, today), "storage")
    /\ UNCHANGED <<today, clock>>

\* the ways settings enter, and the effects of the first render (a duration
\* of 0 lets a settings change take timeLeft to 0, so completions need no
\* tick here: the guard bounds their number)
SettingsStorageNext ==
    \/ FlushEffects
    \/ nextId <= MaxCompletions /\ SettingsSubmit
    \/ nextId <= MaxCompletions /\ SettingsStorage

SpecSettingsStorage == SettingsStorageInit /\ [][SettingsStorageNext]_vars

----------------------------------------------------------------------------
(* The two hooks and the storage events of the origin: another document     *)
(* writes or removes an item, the event is queued for this document, and    *)
(* each hook's handleStorage sees it.                                       *)

MaxInbox == 2

\* the keys another document of the origin writes: ours and one more
EventKeys == {SETTINGS_STORAGE_KEY, STATS_STORAGE_KEY, "theme"}

\* settings a document holds: the dialog's, one work duration or another
HeldSettings ==
    { s \in StoredSettings :
        /\ s.shortBreakDuration = 1 /\ s.longBreakDuration = 1
        /\ s.longBreakInterval = MaxInterval /\ s.autoStartNext }

\* what the newValue of an event for `key` holds
NewValues(key) ==
    {NoItem, EmptyText, Malformed}
    \cup (IF key = STATS_STORAGE_KEY
          THEN { JSONstringify(value) : value \in NotifiedStats }
          ELSE { JSONstringify(value) : value \in HeldSettings })

StorageEventsInit ==
    /\ settings \in HeldSettings
    /\ stats \in NotifiedStats
    /\ state = resetState(settings)
    /\ previousTime = state.timeLeft
    /\ intervals = 0
    /\ dirty = {}
    /\ clock = Noon
    /\ today = todayKey(clock)
    /\ nextId = 0
    /\ owed = 0
    /\ cycleWork = 0
    /\ alerts = noAlerts
    /\ storage = Persisted(settings, stats)
    /\ inbox = <<>>
    /\ peer = noPeer
    /\ lastOp = "other"

\* another document calls setItem or removeItem: the item changes and a
\* storage event is queued for this document
dispatchStorage ==
    /\ Len(inbox) < MaxInbox
    /\ \E key \in EventKeys : \E newValue \in NewValues(key) :
         /\ storage' = IF key \in DOMAIN storage
                       THEN [storage EXCEPT ![key] = newValue]
                       ELSE storage
         /\ inbox' = Append(inbox, [key |-> key, newValue |-> newValue])
    /\ lastOp' = "dispatch"
    /\ UNCHANGED <<state, settings, stats, previousTime, intervals, dirty,
                   today, clock, nextId, owed, cycleWork, alerts, peer>>

\* the listeners of the two hooks handle the oldest queued event, and the
\* render that follows
deliverStorage ==
    /\ dirty = {}
    /\ inbox # <<>>
    /\ LET event == Head(inbox)
           newSettings == handleStorage(settings, SETTINGS_STORAGE_KEY,
                                        defaultSettings, event)
           newStats == handleStorage(stats, STATS_STORAGE_KEY, defaultStats, event)
           c == [Render(state, newSettings # settings,
                        DurationsChanged(settings, newSettings))
                    EXCEPT !.stats = newStats, !.inbox = Tail(inbox)]
       IN /\ settings' = newSettings
          /\ \E eager \in EagerChoices(c) :
               Commit(Settle(c, newSettings, eager, today), "storage")
    /\ UNCHANGED <<today, clock>>

StorageEventsNext == dispatchStorage \/ deliverStorage

SpecStorageEvents == StorageEventsInit /\ [][StorageEventsNext]_vars

----------------------------------------------------------------------------
(* Two documents of the origin (tabs), each with the hook of the stats key: *)
(* this one and `peer`.  A Work completion in either runs the updater of    *)
(* setStats on that document's own copy and writes the item; the storage    *)
(* event goes to the other document's queue and is handled there later.     *)

TabsInit ==
    /\ settings \in HeldSettings
    /\ stats \in NotifiedStats
    /\ state = resetState(settings)
    /\ previousTime = state.timeLeft
    /\ intervals = 0
    /\ dirty = {}
    /\ clock = Noon
    /\ today = todayKey(clock)
    /\ nextId = 0
    /\ owed = 0
    /\ cycleWork = 0
    /\ alerts = noAlerts
    /\ storage = Persisted(settings, stats)
    /\ inbox = <<>>
    /\ peer = [open |-> TRUE, stats |-> stats, inbox |-> <<>>]
    /\ lastOp = "other"

\* setStats of handleSessionComplete in this document
writeStats ==
    /\ cycleWork <= MaxCompletions
    /\ LET written == setValue(stats,
                               statsUpdater(stats, today, nextId + 1, settings),
                               storage[STATS_STORAGE_KEY], TRUE)
       IN /\ stats' = written.value
          /\ storage' = [storage EXCEPT ![STATS_STORAGE_KEY] = written.item]
          /\ peer' = [peer EXCEPT !.inbox =
                         Append(@, [key |-> STATS_STORAGE_KEY,
                                    newValue |-> written.item])]
    /\ nextId' = nextId + 1
    /\ cycleWork' = cycleWork + 1
    /\ lastOp' = "complete"
    /\ UNCHANGED <<state, settings, previousTime, intervals, dirty, today, clock,
                   owed, alerts, inbox>>

\* setStats of handleSessionComplete in the other document (its ids are
\* not ours: 0 and below)
peerWriteStats ==
    /\ cycleWork <= MaxCompletions
    /\ LET written == setValue(peer.stats,
                               statsUpdater(peer.stats, today, 0 - cycleWork,
                                            settings),
                               storage[STATS_STORAGE_KEY], TRUE)
       IN /\ peer' = [peer EXCEPT !.stats = written.value]
          /\ storage' = [storage EXCEPT ![STATS_STORAGE_KEY] = written.item]
          /\ inbox' = Append(inbox, [key |-> STATS_STORAGE_KEY,
                                     newValue |-> written.item])
    /\ cycleWork' = cycleWork + 1
    /\ lastOp' = "peer"
    /\ UNCHANGED <<state, settings, stats, previousTime, intervals, dirty,
                   today, clock, nextId, owed, alerts>>

\* handleStorage in the other document, for the oldest event queued there
peerDeliver ==
    /\ peer.inbox # <<>>
    /\ peer' = [peer EXCEPT
                   !.stats = handleStorage(@, STATS_STORAGE_KEY, defaultStats,
                                           Head(peer.inbox)),
                   !.inbox = Tail(@)]
    /\ lastOp' = "peer"
    /\ UNCHANGED <<state, settings, stats, previousTime, intervals, dirty,
                   today, clock, nextId, owed, cycleWork, alerts, storage, inbox>>

TabsNext == writeStats \/ peerWriteStats \/ deliverStorage \/ peerDeliver

SpecTabs == TabsInit /\ [][TabsNext]_vars

----------------------------------------------------------------------------
(* The hooks over a storage that may refuse a write (setItem throwing, the  *)
(* quota exceeded or the storage disabled) and that may hold no item or a   *)
(* text that is not JSON when the page loads.                               *)

\* the items found at the first render
FoundItems ==
    [key \in {SETTINGS_STORAGE_KEY, STATS_STORAGE_KEY} |->
        {NoItem, Malformed}
        \cup (IF key = STATS_STORAGE_KEY
              THEN { JSONstringify(value) : value \in NotifiedStats }
              ELSE { JSONstringify(value) : value \in HeldSettings })]

WriteFailureInit ==
    /\ storage \in [{SETTINGS_STORAGE_KEY, STATS_STORAGE_KEY} ->
                       UNION { FoundItems[key] : key \in DOMAIN FoundItems }]
    /\ \A key \in DOMAIN storage : storage[key] \in FoundItems[key]
    /\ settings = initialRead(storage[SETTINGS_STORAGE_KEY], defaultSettings)
    /\ stats = initialRead(storage[STATS_STORAGE_KEY], defaultStats)
    /\ state = resetState(settings)
    /\ previousTime = state.timeLeft
    /\ intervals = 0
    /\ dirty = {}
    /\ clock = Noon
    /\ today = todayKey(clock)
    /\ nextId = 0
    /\ owed = 0
    /\ cycleWork = 0
    /\ alerts = noAlerts
    /\ inbox = <<>>
    /\ peer = noPeer
    /\ lastOp = "other"

\* handleSettingsSubmit, the storage accepting the write or not
saveSettings ==
    /\ dirty = {}
    /\ cycleWork <= MaxCompletions
    /\ cycleWork' = cycleWork + 1
    /\ \E pending \in PendingSettings(settings) : \E accepted \in BOOLEAN :
         LET written == setValue(settings, pending,
                                 storage[SETTINGS_STORAGE_KEY], accepted)
             c == [Render(state, written.value # settings,
                          DurationsChanged(settings, written.value))
                      EXCEPT !.storage[SETTINGS_STORAGE_KEY] = written.item]
             n == Settle(c, written.value, FALSE, today)
         IN /\ settings' = written.value
            /\ state' = n.st
            /\ previousTime' = n.pt
            /\ dirty' = n.d
            /\ storage' = n.storage
            /\ lastOp' = IF accepted THEN "other" ELSE "refused"
    /\ UNCHANGED <<stats, intervals, today, clock, nextId, owed, alerts, inbox, peer>>

\* setStats of handleSessionComplete, the storage accepting the write or not
saveStats ==
    /\ cycleWork <= MaxCompletions
    /\ cycleWork' = cycleWork + 1
    /\ \E accepted \in BOOLEAN :
         LET written == setValue(stats,
                                 statsUpdater(stats, today, nextId + 1, settings),
                                 storage[STATS_STORAGE_KEY], accepted)
         IN /\ stats' = written.value
            /\ storage' = [storage EXCEPT ![STATS_STORAGE_KEY] = written.item]
            /\ lastOp' = IF accepted THEN "complete" ELSE "refused"
    /\ nextId' = nextId + 1
    /\ UNCHANGED <<state, settings, previousTime, intervals, dirty, today, clock,
                   owed, alerts, inbox, peer>>

WriteFailureNext == saveSettings \/ saveStats

SpecWriteFailure == WriteFailureInit /\ [][WriteFailureNext]_vars

----------------------------------------------------------------------------
(* The statistics over several days: Work completions recorded under        *)
(* todayKey() as the days pass on the device, in one time zone or another.  *)

CalendarInit ==
    /\ clock \in { [day |-> FirstDay, hour |-> h, zone |-> z] :
                     h \in {0, HoursPerDay - 1}, z \in Zones }
    /\ today = todayKey(clock)
    /\ settings = defaultSettings
    /\ stats = defaultStats
    /\ state = resetState(settings)
    /\ previousTime = state.timeLeft
    /\ intervals = 0
    /\ dirty = {}
    /\ nextId = 0
    /\ owed = 0
    /\ cycleWork = 0
    /\ alerts = noAlerts
    /\ storage = Persisted(settings, stats)
    /\ inbox = <<>>
    /\ peer = noPeer
    /\ lastOp = "other"

\* setStats of handleSessionComplete, once a day at most
recordToday ==
    /\ cycleWork = 0
    /\ LET written == setValue(stats,
                               statsUpdater(stats, todayKey(clock), nextId + 1,
                                            settings),
                               storage[STATS_STORAGE_KEY], TRUE)
       IN /\ stats' = written.value
          /\ storage' = [storage EXCEPT ![STATS_STORAGE_KEY] = written.item]
    /\ nextId' = nextId + 1
    /\ cycleWork' = 1
    /\ lastOp' = "complete"
    /\ UNCHANGED <<state, settings, previousTime, intervals, dirty, today,
                   clock, owed, alerts, inbox, peer>>

\* a day passes
nextDay ==
    /\ clock.day < FirstDay + MaxDays
    /\ clock' = addDays(clock, 1)
    /\ today' = todayKey(clock')
    /\ cycleWork' = 0
    /\ lastOp' = "other"
    /\ UNCHANGED <<state, settings, stats, previousTime, intervals, dirty,
                   nextId, owed, alerts, storage, inbox, peer>>

CalendarNext == recordToday \/ nextDay

SpecCalendar == CalendarInit /\ [][CalendarNext]_vars

----------------------------------------------------------------------------
(* The countdown under settings found in storage or notified by another     *)
(* document, a duration of 0 among them: ticks, start and pause, and the     *)
(* storage events of the settings key.                                       *)

\* the settings found or notified: the work and short break durations vary
FoundSettings ==
    { [workDuration |-> w, shortBreakDuration |-> b, longBreakDuration |-> 1,
       longBreakInterval |-> MaxInterval, autoStartNext |-> TRUE] :
         w \in {0, 1, MaxMinutes}, b \in RawNumbers }

ProgressInit ==
    /\ settings \in FoundSettings
    /\ stats = defaultStats
    /\ state = [sessionType |-> "work",
                timeLeft |-> minutesToSeconds(DefaultWorkDuration),
                isRunning |-> FALSE,
                pomodorosSinceLongBreak |-> 0]
    /\ previousTime = minutesToSeconds(DefaultWorkDuration)
    /\ intervals = 0
    /\ dirty = {"interval", "completion", "recompute"}
    /\ clock = Noon
    /\ today = todayKey(clock)
    /\ nextId = 0
    /\ owed = 0
    /\ cycleWork = 0
    /\ alerts = noAlerts
    /\ storage = Persisted(settings, stats)
    /\ inbox = <<>>
    /\ peer = noPeer
    /\ lastOp = "mount"

\* handleStorage for SETTINGS_STORAGE_KEY with one of FoundSettings, and
\* the render that follows
settingsNotified ==
    /\ dirty = {}
    /\ \E value \in FoundSettings :
         LET event == [key |-> SETTINGS_STORAGE_KEY,
                       newValue |-> JSONstringify(value)]
             c == [Render(state, TRUE, DurationsChanged(settings, value))
                      EXCEPT !.storage[SETTINGS_STORAGE_KEY] = event.newValue]
         IN /\ settings' = handleStorage(settings, SETTINGS_STORAGE_KEY,
                                         defaultSettings, event)
            /\ \E eager \in EagerChoices(c) :
                 Commit(Settle(c, value, eager, today), "storage")
    /\ UNCHANGED <<today, clock>>

\* a run ends with its last recorded completion
ProgressNext ==
    \/ nextId <= MaxCompletions /\ Tick
    \/ nextId <= MaxCompletions /\ FlushEffects
    \/ nextId <= MaxCompletions /\ ToggleRunning
    \/ nextId <= MaxCompletions /\ settingsNotified

SpecProgress == ProgressInit /\ [][ProgressNext]_vars

----------------------------------------------------------------------------
(* minutesToSeconds as the recompute effect calls it, for a work duration   *)
(* of any sign found in the settings.                                       *)

MaxNegative == 5

SecondsInit ==
    /\ settings \in { [defaultSettings EXCEPT !.workDuration = minutes] :
                        minutes \in (0 - MaxNegative) .. DurationMax }
    /\ stats = defaultStats
    /\ state = [sessionType |-> "work",
                timeLeft |-> minutesToSeconds(DefaultWorkDuration),
                isRunning |-> FALSE,
                pomodorosSinceLongBreak |-> 0]
    /\ previousTime = state.timeLeft
    /\ intervals = 0
    /\ dirty = {"recompute"}
    /\ clock = Noon
    /\ today = todayKey(clock)
    /\ nextId = 0
    /\ owed = 0
    /\ cycleWork = 0
    /\ alerts = noAlerts
    /\ storage = Persisted(settings, stats)
    /\ inbox = <<>>
    /\ peer = noPeer
    /\ lastOp = "mount"

\* the updater of the effect on the three durations
recompute ==
    /\ "recompute" \in dirty
    /\ state' = recomputeUpdater(state, settings)
    /\ dirty' = dirty \ {"recompute"}
    /\ lastOp' = "recompute"
    /\ UNCHANGED <<settings, stats, previousTime, intervals, today, clock,
                   nextId, owed, cycleWork, alerts, storage, inbox, peer>>

SecondsNext == recompute

SpecSeconds == SecondsInit /\ [][SecondsNext]_vars

----------------------------------------------------------------------------
(* The page load: the hooks read their items, useState takes the default    *)
(* work duration, and the effects of the first render run before the first  *)
(* command.                                                                  *)

\* the settings item found: none, a text that is not JSON, or what a save
\* of the dialog wrote
MountItems == {NoItem, Malformed} \cup { JSONstringify(s) : s \in StoredSettings }

MountInit ==
    /\ storage \in { [key \in {SETTINGS_STORAGE_KEY, STATS_STORAGE_KEY} |->
                         IF key = SETTINGS_STORAGE_KEY THEN item ELSE NoItem] :
                       item \in MountItems }
    /\ settings = initialRead(storage[SETTINGS_STORAGE_KEY], defaultSettings)
    /\ stats = initialRead(storage[STATS_STORAGE_KEY], defaultStats)
    /\ state = [sessionType |-> "work",
                timeLeft |-> minutesToSeconds(defaultSettings.workDuration),
                isRunning |-> FALSE,
                pomodorosSinceLongBreak |-> 0]
    /\ previousTime = state.timeLeft
    /\ intervals = 0
    /\ dirty = {"interval", "completion", "recompute"}
    /\ clock = Noon
    /\ today = todayKey(clock)
    /\ nextId = 0
    /\ owed = 0
    /\ cycleWork = 0
    /\ alerts = noAlerts
    /\ inbox = <<>>
    /\ peer = noPeer
    /\ lastOp = "mount"

MountNext == FlushEffects \/ ToggleRunning \/ ResetTimer \/ Tick

SpecMount == MountInit /\ [][MountNext]_vars

----------------------------------------------------------------------------
(* The timer left to itself with autoStartNext on: it is started, and then  *)
(* only the interval callback and the effects act.  The interval fires as   *)
(* long as it is scheduled and React runs the effects of every render, so   *)
(* both are weakly fair.  The stats stop growing after MaxCompletions       *)
(* recorded completions: from then on the updater of handleSessionComplete  *)
(* is taken to run at the next render.                                      *)

LiveInit ==
    /\ settings \in { s \in StoredSettings :
                        /\ s.autoStartNext
                        /\ s.shortBreakDuration = 1 /\ s.longBreakDuration = 1 }
    /\ stats = defaultStats
    /\ state = [sessionType |-> "work",
                timeLeft |-> minutesToSeconds(DefaultWorkDuration),
                isRunning |-> FALSE,
                pomodorosSinceLongBreak |-> 0]
    /\ previousTime = minutesToSeconds(DefaultWorkDuration)
    /\ intervals = 0
    /\ dirty = {"interval", "completion", "recompute"}
    /\ clock = Noon
    /\ today = todayKey(clock)
    /\ nextId = 0
    /\ owed = 0
    /\ cycleWork = 0
    /\ alerts = noAlerts
    /\ storage = Persisted(settings, stats)
    /\ inbox = <<>>
    /\ peer = noPeer
    /\ lastOp = "mount"

\* toggleRunning on a paused timer
start ==
    /\ ~state.isRunning
    /\ ToggleRunning

\* one firing of the setInterval callback, and the render it causes
liveTick ==
    /\ dirty = {}
    /\ intervalActive
    /\ Commit(Render(tickUpdater(state), FALSE, FALSE), "tick")
    /\ UNCHANGED <<settings, today, clock>>

\* the passive effects of the last render
liveFlush ==
    /\ dirty # {}
    /\ \E eager \in (IF nextId < MaxCompletions THEN EagerChoices(Component)
                     ELSE {FALSE}) :
         Commit(Settle(Component, settings, eager, today), "other")
    /\ UNCHANGED <<settings, today, clock>>

LiveNext == start \/ liveTick \/ liveFlush

SpecLive ==
    /\ LiveInit
    /\ [][LiveNext]_vars
    /\ WF_vars(liveTick)
    /\ WF_vars(liveFlush)

----------------------------------------------------------------------------
(* toggleRunning as a function of the session state it finds.  timeLeft = 0 *)
(* is the state rendered by the last tick of a phase, which a command sees  *)
(* when it is handled before the effects of that render.                    *)

TimeLeftInputs == {0, 1} \cup { minutesToSeconds(m) : m \in 1 .. MaxMinutes }

SessionStates ==
    { st \in [sessionType : SessionTypes,
              timeLeft : TimeLeftInputs,
              isRunning : BOOLEAN,
              pomodorosSinceLongBreak : 0 .. MaxInterval - 1] :
        st.timeLeft = 0 => ~st.isRunning }

ToggleInit ==
    /\ settings \in StoredSettings
    /\ state \in SessionStates
    /\ stats = defaultStats
    /\ previousTime = state.timeLeft
    /\ intervals = IF state.isRunning THEN 1 ELSE 0
    /\ dirty = {}
    /\ clock = Noon
    /\ today = todayKey(clock)
    /\ nextId = 0
    /\ owed = 0
    /\ cycleWork = 0
    /\ alerts = noAlerts
    /\ storage = Persisted(settings, stats)
    /\ inbox = <<>>
    /\ peer = noPeer
    /\ lastOp = "other"

\* toggleRunning: setState(updater)
toggleRunning ==
    /\ state' = toggleUpdater(state, settings)
    /\ lastOp' = "toggle"
    /\ UNCHANGED <<settings, stats, previousTime, intervals, dirty, today, clock,
                   nextId, owed, cycleWork, alerts, storage, inbox, peer>>

ToggleNext == toggleRunning

SpecToggle == ToggleInit /\ [][ToggleNext]_vars

----------------------------------------------------------------------------
(* The notification of handleSessionComplete: the permission of the         *)
(* origin, the request useNotificationPermission makes for it, and the      *)
(* session sendNotification is told about.  The session is in the last      *)
(* second of a phase.                                                       *)

\* Notification.permission, or no Notification in the host at all
Permissions == {"default", "granted", "denied", "unavailable"}

MaxRequests == 2

\* the effect of useNotificationPermission calls requestPermission()
requestsPermission(enabled, permission) ==
    enabled /\ permission = "default"

\* Variant of passesChecks: the permission is not looked at
passesChecks_anyPermission(s, permission) ==
    s.notificationsEnabled /\ permission # "unavailable"

\* the three early returns of sendNotification are not taken
passesChecks(s, permission) ==
    s.notificationsEnabled /\ permission = "granted"

\* the title sendNotification gives the notification
title(nextSession) ==
    IF nextSession = "work" THEN "Break complete" ELSE "Pomodoro complete"

\* nextSession as handleSessionComplete reads it after setState: assigned
\* by the updater if it ran inside setState, else still its initial "work"
nextSession(prev, s, eager) ==
    IF eager THEN completeUpdater(prev, s).sessionType ELSE "work"

\* the effect of useNotificationPermission on a render with this setting
permissionEffect(al, enabled) ==
    IF requestsPermission(enabled, al.permission)
    THEN [al EXCEPT !.requests = al.requests + 1, !.prompt = TRUE]
    ELSE al

NotifyInit ==
    /\ settings \in PomodoroSettings
    /\ \E type \in SessionTypes, count \in 0 .. MaxInterval - 1 :
         state = [sessionType |-> type, timeLeft |-> 1, isRunning |-> TRUE,
                  pomodorosSinceLongBreak |-> count]
    /\ stats = defaultStats
    /\ previousTime = 1
    /\ intervals = 1
    /\ dirty = {}
    /\ clock = Noon
    /\ today = todayKey(clock)
    /\ nextId = 0
    /\ owed = 0
    /\ cycleWork = 0
    /\ \E permission \in Permissions :
         alerts = permissionEffect([sound |-> "none", notification |-> "none",
                                    permission |-> permission, requests |-> 0,
                                    prompt |-> FALSE, nextSession |-> "none",
                                    title |-> "none"],
                                   settings.notificationsEnabled)
    /\ storage = Persisted(settings, stats)
    /\ inbox = <<>>
    /\ peer = noPeer
    /\ lastOp = "other"

\* the tick that takes timeLeft to 0
lastTick ==
    /\ state.timeLeft = 1
    /\ Tick

\* the effects of a render; when they call handleSessionComplete, its
\* sound and its notification
flushAndNotify ==
    /\ dirty # {}
    /\ \E eager \in EagerChoices(Component), so \in SoundOutcomes,
          throws \in BOOLEAN :
         LET fires == WillComplete(Component)
             next == nextSession(state, settings, eager)
             passes == passesChecks(settings, alerts.permission)
             note == sendNotification(IF ~passes THEN "skipped"
                                      ELSE IF throws THEN "throws"
                                      ELSE "shown")
             al == IF fires
                   THEN [alerts EXCEPT
                           !.sound = playAlertSound(so).did,
                           !.notification = note.did,
                           !.nextSession = next,
                           !.title = IF passes THEN title(next) ELSE "none"]
                   ELSE alerts
         IN /\ fires => (so = "skipped") = ~settings.soundEnabled
            /\ ~fires => so = "skipped" /\ ~throws
            /\ Commit([Settle(Component, settings, eager, today)
                         EXCEPT !.al = al], "other")
    /\ UNCHANGED <<settings, today, clock>>

\* handleSettingsSubmit with notificationsEnabled switched, and the effect
\* of useNotificationPermission that the render leaves due
switchNotifications ==
    /\ dirty = {}
    /\ alerts.requests < MaxRequests
    /\ LET pending == [settings EXCEPT
                         !.notificationsEnabled = ~settings.notificationsEnabled]
           written == setValue(settings, pending,
                               storage[SETTINGS_STORAGE_KEY], TRUE)
           c == [Render(state, TRUE, FALSE) EXCEPT
                   !.storage[SETTINGS_STORAGE_KEY] = written.item,
                   !.al = permissionEffect(alerts, pending.notificationsEnabled)]
       IN /\ settings' = written.value
          /\ \E eager \in EagerChoices(c) :
               Commit(Settle(c, pending, eager, today), "other")
    /\ UNCHANGED <<today, clock>>

\* the user answers the permission prompt, or closes it
answerPrompt ==
    /\ alerts.prompt
    /\ \E answer \in {"granted", "denied", "default"} :
         alerts' = [alerts EXCEPT !.permission = answer, !.prompt = FALSE]
    /\ UNCHANGED <<state, settings, stats, previousTime, intervals, dirty,
                   today, clock, nextId, owed, cycleWork, storage, inbox,
                   peer, lastOp>>

NotifyNext ==
    \/ lastTick
    \/ flushAndNotify
    \/ switchNotifications
    \/ answerPrompt

SpecNotify == NotifyInit /\ [][NotifyNext]_vars

----------------------------------------------------------------------------
(* The timer with commands that arrive before the effects of the last      *)
(* render have run.  The render of a tick is not the result of a click or  *)
(* a key press, so React runs its effects in a later task; a key press     *)
(* handled in between calls setState first, and React runs the effects due *)
(* when it starts the render of that update.                               *)

\* a command whose update turns the state into `updated`, handled with
\* effects due: the effects run on the render they belong to, and the
\* updates they enqueue follow the command's in the queue.  The updater of
\* handleSessionComplete is queued behind the command's update, so it runs
\* at render time.
beforeEffects(updated) ==
    LET fires == WillComplete(Component)
        s1 == IF fires THEN completeUpdater(updated, settings) ELSE updated
        s2 == IF "recompute" \in dirty THEN recomputeUpdater(s1, settings)
              ELSE s1
        c == [Component EXCEPT
                !.st = s2,
                !.pt = IF "completion" \in dirty THEN state.timeLeft
                       ELSE previousTime,
                !.ia = IF "interval" \in dirty
                       THEN intervalEffect(intervals, state.isRunning)
                       ELSE intervals,
                !.d = EffectsDue(state, s2, FALSE, FALSE),
                !.owed = owed + Expired(state, s2) - (IF fires THEN 1 ELSE 0),
                !.called = fires]
    IN \E eager \in EagerChoices(c) :
         Commit(Settle(c, settings, eager, today), "other")

\* toggleRunning handled before the effects of the last render
toggleBeforeEffects ==
    /\ dirty # {}
    /\ nextId < MaxCompletions \/ ~WillComplete(Component)
    /\ beforeEffects(toggleUpdater(state, settings))
    /\ UNCHANGED <<settings, today, clock>>

\* resetTimer handled before the effects of the last render
resetBeforeEffects ==
    /\ dirty # {}
    /\ nextId < MaxCompletions \/ ~WillComplete(Component)
    /\ beforeEffects(resetState(settings))
    /\ UNCHANGED <<settings, today, clock>>

EarlyNext ==
    \/ Tick
    \/ FlushEffects
    \/ ToggleRunning
    \/ ResetTimer
    \/ toggleBeforeEffects
    \/ resetBeforeEffects

SpecEarly == Init /\ [][EarlyNext]_vars

\* the same, from the first render with the stored settings
SpecMountEarly == MountInit /\ [][EarlyNext]_vars

----------------------------------------------------------------------------
(* The updater of the setInterval callback as a function of the session    *)
(* state it finds: the callback is still scheduled, whether the state is    *)
(* running or not (the cleanup of the interval effect has not run yet).     *)

LateTickInit ==
    /\ settings \in StoredSettings
    /\ state \in SessionStates
    /\ stats = defaultStats
    /\ previousTime = state.timeLeft
    /\ intervals = 1
    /\ dirty = IF state.isRunning THEN {} ELSE {"interval"}
    /\ clock = Noon
    /\ today = todayKey(clock)
    /\ nextId = 0
    /\ owed = 0
    /\ cycleWork = 0
    /\ alerts = noAlerts
    /\ storage = Persisted(settings, stats)
    /\ inbox = <<>>
    /\ peer = noPeer
    /\ lastOp = "other"

\* the callback: setState(updater)
lateTick ==
    /\ intervalActive
    /\ state' = tickUpdater(state)
    /\ lastOp' = "tick"
    /\ UNCHANGED <<settings, stats, previousTime, intervals, dirty, today, clock,
                   nextId, owed, cycleWork, alerts, storage, inbox, peer>>

LateTickNext == lateTick

SpecLateTick == LateTickInit /\ [][LateTickNext]_vars

----------------------------------------------------------------------------
(* The settings dialog saved on a session in progress: any session state    *)
(* with time left, running or paused, and any settings the dialog can hold, *)
(* the two switches of the alerts included.                                 *)

DialogInit ==
    /\ settings \in PomodoroSettings
    /\ state \in { st \in SessionStates : st.timeLeft > 0 }
    /\ stats = defaultStats
    /\ previousTime = state.timeLeft
    /\ intervals = IF state.isRunning THEN 1 ELSE 0
    /\ dirty = {}
    /\ clock = Noon
    /\ today = todayKey(clock)
    /\ nextId = 0
    /\ owed = 0
    /\ cycleWork = 0
    /\ alerts = noAlerts
    /\ storage = Persisted(settings, stats)
    /\ inbox = <<>>
    /\ peer = noPeer
    /\ lastOp = "other"

\* handleSettingsSubmit with any pendingSettings that differ from the
\* settings (a save that changes nothing leaves every variable as it is)
handleSettingsSubmit ==
    /\ dirty = {}
    /\ \E pending \in PomodoroSettings \ {settings} :
         LET written == setValue(settings, pending,
                                 storage[SETTINGS_STORAGE_KEY], TRUE)
             c == [Render(state, TRUE, DurationsChanged(settings, pending))
                      EXCEPT !.storage[SETTINGS_STORAGE_KEY] = written.item]
         IN /\ settings' = written.value
            /\ \E eager \in EagerChoices(c) :
                 Commit(Settle(c, pending, eager, today), "submit")
    /\ UNCHANGED <<today, clock>>

DialogNext == handleSettingsSubmit \/ ToggleRunning

SpecDialog == DialogInit /\ [][DialogNext]_vars

----------------------------------------------------------------------------
(* The history list around its cap: the setStats call of                   *)
(* handleSessionComplete applied to the stats that n recorded completions   *)
(* leave.                                                                   *)

RECURSIVE RecordFrom(_, _, _, _)
\* prev after the Work completions with ids k .. n are recorded, one after
\* the other (byDay is never empty after an update: the comparison makes TLC
\* evaluate the map of one update before the next is applied)
RecordFrom(prev, k, n, s) ==
    IF k > n THEN prev
    ELSE LET next == statsUpdater(prev, 1, k, s)
         IN IF next.byDay # <<>> THEN RecordFrom(next, k + 1, n, s) ELSE next

\* the stats after n recorded Work completions, ids 1 .. n
Recorded(n, s) == RecordFrom(defaultStats, 1, n, s)

HistoryLengths == {0, HistoryCap - 1, HistoryCap}

HistoryInit ==
    /\ settings \in StoredSettings
    /\ clock = Noon
    /\ today = todayKey(clock)
    /\ \E n \in HistoryLengths :
         /\ stats = Recorded(n, settings)
         /\ nextId = n
    /\ state = resetState(settings)
    /\ previousTime = state.timeLeft
    /\ intervals = 0
    /\ dirty = {}
    /\ owed = 0
    /\ cycleWork = 0
    /\ alerts = noAlerts
    /\ storage = Persisted(settings, stats)
    /\ inbox = <<>>
    /\ peer = noPeer
    /\ lastOp = "other"

\* setStats(updater) of a Work completion
recordCompletion ==
    /\ cycleWork <= MaxCompletions
    /\ LET written == setValue(stats,
                               statsUpdater(stats, today, nextId + 1, settings),
                               storage[STATS_STORAGE_KEY], TRUE)
       IN /\ stats' = written.value
          /\ storage' = [storage EXCEPT ![STATS_STORAGE_KEY] = written.item]
    /\ nextId' = nextId + 1
    /\ cycleWork' = cycleWork + 1
    /\ lastOp' = "complete"
    /\ UNCHANGED <<state, settings, previousTime, intervals, dirty, today, clock,
                   owed, alerts, inbox, peer>>

HistoryNext == recordCompletion

SpecHistory == HistoryInit /\ [][HistoryNext]_vars

----------------------------------------------------------------------------
(* The stats over several days: recorded completions on an earlier day,     *)
(* then completions recorded day after day.                                 *)

RECURSIVE sumOver(_, _)
sumOver(byDay, keys) ==
    IF keys = {} THEN 0
    ELSE LET k == CHOOSE x \in keys : TRUE
         IN byDay[k] + sumOver(byDay, keys \ {k})

\* lifetimeTotal: Object.values(stats.byDay).reduce((sum, value) => sum + value, 0)
lifetimeTotal(st) == sumOver(st.byDay, DOMAIN st.byDay)

TotalsInit ==
    /\ settings = defaultSettings
    /\ clock = [day |-> FirstDay, hour |-> Noon.hour, zone |-> UTC]
    /\ today = todayKey(clock)
    /\ \E n \in HistoryLengths :
         /\ stats = Recorded(n, settings)
         /\ nextId = n
    /\ state = resetState(settings)
    /\ previousTime = state.timeLeft
    /\ intervals = 0
    /\ dirty = {}
    /\ owed = 0
    /\ cycleWork = 0
    /\ alerts = noAlerts
    /\ storage = Persisted(settings, stats)
    /\ inbox = <<>>
    /\ peer = noPeer
    /\ lastOp = "other"

TotalsNext == recordCompletion \/ nextDay

SpecTotals == TotalsInit /\ [][TotalsNext]_vars

----------------------------------------------------------------------------
(* Two runs side by side.  The second run (peer) is another HomePage given  *)
(* the same ticks and commands and the same durations, interval and         *)
(* autoStartNext as the first, but its own stats, its own sound and         *)
(* notification switches, and its own luck with the updater of              *)
(* handleSessionComplete.                                                   *)

\* settings of the first run: every phase one minute long, the switches as
\* in defaultSettings
TwinSettings ==
    { s \in PomodoroSettings :
        /\ s.workDuration = 1 /\ s.shortBreakDuration = 1
        /\ s.longBreakDuration = 1
        /\ s.soundEnabled /\ ~s.notificationsEnabled }

\* the two switches of the second run
withSwitches(s, sound, notifications) ==
    [s EXCEPT !.soundEnabled = sound, !.notificationsEnabled = notifications]

\* Render, for the component c
renderOf(c, newState, handlerChanged, durationsChanged) ==
    [c EXCEPT
        !.st = newState,
        !.d = EffectsDue(c.st, newState, handlerChanged, durationsChanged),
        !.owed = c.owed + Expired(c.st, newState),
        !.called = FALSE]

\* Commit, for both runs
commitTwin(c, twin, op) ==
    /\ state' = c.st
    /\ previousTime' = c.pt
    /\ intervals' = c.ia
    /\ dirty' = c.d
    /\ stats' = c.stats
    /\ nextId' = c.nextId
    /\ owed' = c.owed
    /\ cycleWork' = cycleWork
    /\ alerts' = c.al
    /\ storage' = c.storage
    /\ inbox' = c.inbox
    /\ peer' = twin
    /\ lastOp' = IF c.called THEN "complete" ELSE op

\* the second run may record a completion
TwinEager(c) ==
    IF WillComplete(c) /\ c.nextId <= MaxCompletions THEN BOOLEAN ELSE {FALSE}

TwinInit ==
    /\ settings \in TwinSettings
    /\ stats = defaultStats
    /\ state = [sessionType |-> "work",
                timeLeft |-> minutesToSeconds(DefaultWorkDuration),
                isRunning |-> FALSE,
                pomodorosSinceLongBreak |-> 0]
    /\ previousTime = minutesToSeconds(DefaultWorkDuration)
    /\ intervals = 0
    /\ dirty = {"interval", "completion", "recompute"}
    /\ clock = Noon
    /\ today = todayKey(clock)
    /\ nextId = 0
    /\ owed = 0
    /\ cycleWork = 0
    /\ alerts = noAlerts
    /\ storage = Persisted(settings, stats)
    /\ inbox = <<>>
    /\ \E sound \in BOOLEAN, notifications \in BOOLEAN :
         LET found == Recorded(1, settings)
             own == withSwitches(settings, sound, notifications)
         IN peer = [settings |-> own,
                    c |-> [Component EXCEPT
                             !.stats = found,
                             !.nextId = 1,
                             !.storage = Persisted(own, found)]]
    /\ lastOp = "mount"

\* one firing of the setInterval callback in each run
twinTick ==
    /\ dirty = {}
    /\ intervalActive
    /\ nextId < MaxCompletions \/ state.sessionType # "work" \/ state.timeLeft > 1
    /\ commitTwin(Render(tickUpdater(state), FALSE, FALSE),
                  [peer EXCEPT !.c = renderOf(peer.c, tickUpdater(peer.c.st),
                                              FALSE, FALSE)],
                  "tick")
    /\ UNCHANGED <<settings, today, clock>>

\* the passive effects of the last render, in each run
twinFlush ==
    /\ dirty # {}
    /\ \E eager \in EagerChoices(Component), other \in TwinEager(peer.c) :
         commitTwin(Settle(Component, settings, eager, today),
                    [peer EXCEPT !.c = Settle(peer.c, peer.settings, other, today)],
                    "other")
    /\ UNCHANGED <<settings, today, clock>>

\* toggleRunning in each run
twinToggle ==
    /\ dirty = {}
    /\ LET c == Render(toggleUpdater(state, settings), FALSE, FALSE)
           t == renderOf(peer.c, toggleUpdater(peer.c.st, peer.settings),
                         FALSE, FALSE)
       IN \E eager \in EagerChoices(c), other \in TwinEager(t) :
            commitTwin(Settle(c, settings, eager, today),
                       [peer EXCEPT !.c = Settle(t, peer.settings, other, today)],
                       "other")
    /\ UNCHANGED <<settings, today, clock>>

\* resetTimer in each run
twinReset ==
    /\ dirty = {}
    /\ LET c == Render(resetState(settings), FALSE, FALSE)
           t == renderOf(peer.c, resetState(peer.settings), FALSE, FALSE)
       IN \E eager \in EagerChoices(c), other \in TwinEager(t) :
            commitTwin(Settle(c, settings, eager, today),
                       [peer EXCEPT !.c = Settle(t, peer.settings, other, today)],
                       "other")
    /\ UNCHANGED <<settings, today, clock>>

\* handleSettingsSubmit in each run: the same interval and autoStartNext,
\* and in the second run its own switches
twinSubmit ==
    /\ dirty = {}
    /\ \E pending \in TwinSettings \ {settings},
          sound \in BOOLEAN, notifications \in BOOLEAN :
         LET own == withSwitches(pending, sound, notifications)
             written == setValue(settings, pending,
                                 storage[SETTINGS_STORAGE_KEY], TRUE)
             kept == setValue(peer.settings, own,
                              peer.c.storage[SETTINGS_STORAGE_KEY], TRUE)
             c == [Render(state, TRUE, DurationsChanged(settings, pending))
                      EXCEPT !.storage[SETTINGS_STORAGE_KEY] = written.item]
             t == [renderOf(peer.c, peer.c.st, TRUE,
                            DurationsChanged(peer.settings, own))
                      EXCEPT !.storage[SETTINGS_STORAGE_KEY] = kept.item]
         IN /\ settings' = written.value
            /\ \E eager \in EagerChoices(c), other \in TwinEager(t) :
                 commitTwin(Settle(c, pending, eager, today),
                            [settings |-> kept.value,
                             c |-> Settle(t, own, other, today)],
                            "other")
    /\ UNCHANGED <<today, clock>>

TwinNext ==
    \/ twinTick
    \/ twinFlush
    \/ twinToggle
    \/ twinReset
    \/ twinSubmit

SpecTwin == TwinInit /\ [][TwinNext]_vars

----------------------------------------------------------------------------
(* Properties *)

Counter == state.pomodorosSinceLongBreak
Phase == state.sessionType
Completed == lastOp' = "complete"
FullDuration == currentDurationSeconds(state, settings)

\* C1: a completion from Work increments the counter; if the incremented
\* count reaches longBreakInterval the next phase is long_break and the
\* counter becomes 0, otherwise the next phase is short_break and the
\* counter keeps the incremented value.
C1_WorkCompletion ==
    [][ (Completed /\ Phase = "work") =>
          LET incremented == Counter + 1
          IN IF incremented >= settings.longBreakInterval
             THEN state'.sessionType = "long_break"
                  /\ state'.pomodorosSinceLongBreak = 0
             ELSE state'.sessionType = "short_break"
                  /\ state'.pomodorosSinceLongBreak = incremented ]_vars

C1_Witness ==
    /\ lastOp = "complete"
    /\ Phase = "long_break"
    /\ Counter = 0
    /\ settings.longBreakInterval = MaxInterval

\* C2: from the reset state with longBreakInterval = N fixed, the k-th Work
\* completion leads to long_break exactly when k is a multiple of N and to
\* short_break otherwise, every break is followed by work, and the counter
\* is 0 exactly from the transition into long_break (or the reset) until the
\* next Work completion.
C2_PhaseCycle ==
    /\ [](Counter = 0 <=> cycleWork % settings.longBreakInterval = 0)
    /\ [][ /\ Phase = "work" =>
                state'.sessionType =
                    IF cycleWork' % settings.longBreakInterval = 0
                    THEN "long_break" ELSE "short_break"
           /\ Phase # "work" => state'.sessionType = "work" ]_vars

C2_Witness ==
    /\ lastOp = "complete"
    /\ Phase = "long_break"
    /\ settings.longBreakInterval = MaxInterval
    /\ cycleWork = 2 * MaxInterval

\* C3: a completion from short_break or long_break sets the next phase to
\* work and leaves the counter unchanged.
C3_BreakCompletion ==
    [][ (Completed /\ Phase # "work") =>
          /\ state'.sessionType = "work"
          /\ state'.pomodorosSinceLongBreak = Counter ]_vars

C3_Witness ==
    /\ lastOp = "complete"
    /\ Phase = "work"
    /\ Counter > 0

\* C4: handleSessionComplete is called exactly once for each change of
\* timeLeft from a value > 0 to 0: the calls never outnumber the expiries,
\* at most one expiry awaits its call, and none does once the effects of the
\* render have run (a settings save re-creates the handler and re-runs the
\* effect without a call).
C4_OncePerExpiry ==
    /\ owed \in {0, 1}
    /\ dirty = {} => owed = 0
    /\ owed = 1 => state.timeLeft = 0

C4_Witness ==
    /\ lastOp = "complete"
    /\ owed = 0
    /\ dirty = {}
    /\ nextId = 1

RECURSIVE TickN(_, _)
\* n ticks in a row
TickN(st, n) == IF n = 0 THEN st ELSE TickN(tickUpdater(st), n - 1)

\* C5: while running, n consecutive ticks from timeLeft = s reduce timeLeft
\* by exactly min(n, s); the tick that takes it to 0 also sets isRunning to
\* false; timeLeft never becomes negative.
C5_Ticks ==
    /\ [](state.isRunning =>
            \A n \in 0 .. MaxTicks :
              LET r == TickN(state, n)
              IN /\ r.timeLeft = state.timeLeft - Min(n, state.timeLeft)
                 /\ r.timeLeft >= 0
                 /\ r.isRunning = (r.timeLeft > 0))
    /\ [][ lastOp' = "tick" =>
             /\ state'.timeLeft = state.timeLeft - Min(1, state.timeLeft)
             /\ state'.timeLeft >= 0
             /\ state'.isRunning = (state'.timeLeft > 0) ]_vars

C5_Witness ==
    /\ lastOp = "tick"
    /\ state.timeLeft = 0
    /\ ~state.isRunning
    /\ Phase = "short_break"

Bound == state.timeLeft <= FullDuration

\* C6 as stated: once the effects of a render have run,
\* 0 <= timeLeft <= duration of the phase under the current settings.
C6_Original == dirty = {} => (0 <= state.timeLeft /\ Bound)

\* C6 as amended: timeLeft >= 0 in every state; timeLeft <= duration of the
\* phase under the current settings is preserved by every step except a
\* change of a duration setting made while running, and every step that
\* changes a duration setting, or runs the recomputation, while not running
\* establishes it.
C6_BoundedCountdown ==
    /\ [](state.timeLeft >= 0)
    /\ [][ /\ (Bound /\ ~(state.isRunning /\ DurationsChanged(settings, settings')))
              => Bound'
           /\ (~state.isRunning
               /\ (DurationsChanged(settings, settings') \/ "recompute" \in dirty))
              => Bound' ]_vars

C6_Witness ==
    /\ lastOp = "other"
    /\ dirty = {}
    /\ ~state.isRunning
    /\ Phase = "long_break"
    /\ settings.longBreakDuration = MaxMinutes
    /\ settings.workDuration = 1
    /\ state.timeLeft = FullDuration

\* C7: timeLeft = 0 implies not running; a step makes isRunning true only by
\* a completion or by toggleRunning, and then with timeLeft > 0.
C7_ZeroNotRunning ==
    /\ [](state.timeLeft = 0 => ~state.isRunning)
    /\ [][ (~state.isRunning /\ state'.isRunning) =>
             /\ state'.timeLeft > 0
             /\ Completed \/ state' = toggleUpdater(state, settings) ]_vars

C7_Witness ==
    /\ lastOp = "complete"
    /\ state.isRunning
    /\ state.timeLeft > 0

\* C8: after a completion, timeLeft is 60 times the minutes the settings
\* current at the completion give the phase just entered.
C8_NextDuration ==
    [][ Completed =>
          /\ settings' = settings
          /\ state'.timeLeft =
               SecondsPerMinute * sessionDurationMinutes(state'.sessionType, settings) ]_vars

C8_Witness ==
    /\ lastOp = "complete"
    /\ Phase = "short_break"
    /\ settings.shortBreakDuration # settings.workDuration
    /\ state.timeLeft = SecondsPerMinute * settings.shortBreakDuration

\* C9: after a completion isRunning equals autoStartNext, and so does the
\* presence of the tick source; a paused timer at full duration stays paused
\* at the full duration of its phase until toggleRunning starts it.
C9_AutoStart ==
    /\ [](dirty = {} => intervalActive = state.isRunning)
    /\ [][ /\ Completed =>
                /\ state'.isRunning = settings.autoStartNext
                /\ intervalActive' = settings.autoStartNext
           /\ (dirty = {} /\ ~state.isRunning /\ state.timeLeft = FullDuration) =>
                \/ ~state'.isRunning /\ state'.timeLeft = FullDuration'
                \/ state' = toggleUpdater(state, settings) ]_vars

C9_Witness ==
    /\ lastOp = "complete"
    /\ ~settings.autoStartNext
    /\ ~state.isRunning
    /\ ~intervalActive
    /\ state.timeLeft = FullDuration

ByDay(s, key) == IF key \in DOMAIN s.byDay THEN s.byDay[key] ELSE 0

\* C10: every completion of a Work phase increments byDay[todayKey] by
\* exactly 1 (an absent key counting as 0) and inserts exactly one new log
\* entry at index 0 of history.
C10_WorkRecorded ==
    [][ (Completed /\ Phase = "work") =>
          /\ ByDay(stats', today) = ByDay(stats, today) + 1
          /\ Len(stats'.history) = Min(HistoryCap, Len(stats.history) + 1)
          /\ stats'.history # <<>>
          /\ Head(stats'.history).type = "work"
          /\ Tail(stats'.history) =
               SubSeq(stats.history, 1, Len(stats'.history) - 1) ]_vars

\* C13: toggleRunning negates isRunning and changes nothing else, except
\* that from timeLeft = 0 a start first sets timeLeft to the full duration
\* of the current phase; sessionType and the counter are never changed.
C13_Toggle ==
    [][ lastOp' = "toggle" =>
          state' =
            IF state.timeLeft = 0 /\ ~state.isRunning
            THEN [state EXCEPT
                    !.timeLeft = SecondsPerMinute
                                 * sessionDurationMinutes(Phase, settings),
                    !.isRunning = TRUE]
            ELSE [state EXCEPT !.isRunning = ~state.isRunning] ]_vars

C13_Witness ==
    /\ lastOp = "toggle"
    /\ previousTime = 0
    /\ state.isRunning
    /\ Phase = "long_break"
    /\ Counter = MaxInterval - 1
    /\ state.timeLeft = SecondsPerMinute * MaxMinutes
    /\ settings.longBreakDuration = MaxMinutes
    /\ settings.workDuration = 1

\* C14: resetTimer from any reachable state yields work, not running,
\* timeLeft = 60 * the current workDuration and counter 0; a reset of the
\* state a reset produces changes nothing.
C14_Reset ==
    [][ (lastOp' # "tick" /\ ResetTimer) =>
          LET initial == [sessionType |-> "work",
                          timeLeft |-> SecondsPerMinute * settings.workDuration,
                          isRunning |-> FALSE,
                          pomodorosSinceLongBreak |-> 0]
          IN /\ state' = initial
             /\ state = initial =>
                  UNCHANGED <<state, settings, stats, previousTime, intervals,
                              dirty>> ]_vars

C14_Witness ==
    /\ lastOp = "other"
    /\ dirty = {}
    /\ Phase = "work"
    /\ ~state.isRunning
    /\ Counter = 0
    /\ state.timeLeft = SecondsPerMinute * MaxMinutes
    /\ settings.workDuration = MaxMinutes
    /\ settings.longBreakInterval = MaxInterval
    /\ stats.history # <<>>

\* C15: resetTimer leaves the stats (byDay and history) and the settings
\* unchanged and calls no completion, whatever the state it is invoked in
\* (a running Work phase included).
C15_ResetFrame ==
    [][ (lastOp' # "tick" /\ ResetTimer) =>
          /\ stats' = stats
          /\ settings' = settings
          /\ nextId' = nextId
          /\ ~Completed ]_vars

C15_Witness ==
    /\ lastOp = "other"
    /\ dirty = {}
    /\ state = [sessionType |-> "work",
                timeLeft |-> SecondsPerMinute * settings.workDuration,
                isRunning |-> FALSE,
                pomodorosSinceLongBreak |-> 0]
    /\ intervals = 0
    /\ previousTime = state.timeLeft
    /\ Len(stats.history) = 1
    /\ ByDay(stats, today) = 1

\* C16: a change of a duration setting while not running sets timeLeft to
\* the full duration of the current phase under the new settings and keeps
\* sessionType and the counter.
C16_PausedDurationChange ==
    [][ (DurationsChanged(settings, settings') /\ ~state.isRunning) =>
          /\ state'.timeLeft =
               SecondsPerMinute * sessionDurationMinutes(Phase, settings')
          /\ state'.sessionType = Phase
          /\ state'.pomodorosSinceLongBreak = Counter ]_vars

C16_Witness ==
    /\ lastOp = "other"
    /\ dirty = {}
    /\ ~state.isRunning
    /\ Phase = "short_break"
    /\ Counter = 1
    /\ settings.shortBreakDuration = MaxMinutes
    /\ settings.workDuration = 1
    /\ settings.longBreakDuration = 1
    /\ state.timeLeft = SecondsPerMinute * MaxMinutes

\* C17: a settings change while running leaves timeLeft, sessionType and
\* isRunning unchanged; from a running state no step other than a tick, a
\* completion or a reset changes timeLeft or sessionType (a pause does not
\* recompute timeLeft), and the completion uses the new durations.
C17_RunningSettingsChange ==
    [][ /\ (settings' # settings /\ state.isRunning) =>
             /\ state'.timeLeft = state.timeLeft
             /\ state'.sessionType = Phase
             /\ state'.isRunning
        /\ (state.isRunning /\ lastOp' = "other") =>
             \/ /\ state'.timeLeft = state.timeLeft
                /\ state'.sessionType = Phase
             \/ ResetTimer
        /\ Completed =>
             state'.timeLeft =
               SecondsPerMinute * sessionDurationMinutes(state'.sessionType, settings') ]_vars

C17_Witness ==
    /\ lastOp = "other"
    /\ dirty = {}
    /\ ~state.isRunning
    /\ Phase = "work"
    /\ settings.workDuration = 1
    /\ state.timeLeft > SecondsPerMinute
    /\ state.timeLeft < SecondsPerMinute * MaxMinutes

\* C11: history never has more than 50 entries and is ordered most recent
\* first; a recorded completion puts its entry at the head and keeps the
\* former entries in their order, all of them while there is room, all but
\* the last (the oldest) once the list is full.
C11_HistoryCap ==
    /\ [](/\ Len(stats.history) <= HistoryCap
          /\ \A i \in 1 .. Len(stats.history) - 1 :
                stats.history[i].id > stats.history[i + 1].id)
    /\ [][ lastOp' = "complete" =>
             LET old == stats.history
                 new == stats'.history
             IN /\ new # <<>>
                /\ Head(new).id = nextId'
                /\ Tail(new) = IF Len(old) < HistoryCap THEN old
                               ELSE SubSeq(old, 1, Len(old) - 1) ]_vars

C11_Witness ==
    /\ lastOp = "complete"
    /\ cycleWork = 1
    /\ Len(stats.history) = HistoryCap
    /\ stats.history[1].id = HistoryCap + 1
    /\ stats.history[HistoryCap].id = 2

\* C19: there is at most one tick source; while the component is mounted
\* and once the effects of a render have run, there is one exactly when
\* isRunning (a difference between the two is always one the pending
\* effect on isRunning removes, and then the timer is not running); there
\* is none once the component is discarded; without a live source no tick
\* is delivered.
C19_TickSource ==
    /\ intervals \in {0, 1}
    /\ lastOp # "unmount" =>
         IF "interval" \in dirty THEN ~state.isRunning
         ELSE (intervals = 1) = state.isRunning
    /\ lastOp = "unmount" => intervals = 0
    /\ intervals = 0 => ~ENABLED Tick

C19_Witness ==
    /\ lastOp = "unmount"
    /\ state.isRunning
    /\ intervals = 0
    /\ state.timeLeft > 0
    /\ state.timeLeft < FullDuration
    /\ Phase = "short_break"

\* C20: whatever the sound and the notification do (succeed, fail, never
\* finish), the call of handleSessionComplete ends with the session state
\* its updater computes from the state and the settings: next phase,
\* timeLeft, isRunning and counter.
C20_AlertsIndependent ==
    [][ /\ Completed
        /\ state' = completeUpdater(state, settings)
        /\ state'.sessionType # Phase
        /\ state'.timeLeft =
             SecondsPerMinute * sessionDurationMinutes(state'.sessionType, settings)
        /\ state'.isRunning = settings.autoStartNext ]_vars

C20_Witness ==
    /\ lastOp = "complete"
    /\ alerts = [sound |-> "pending", notification |-> "caught"]
    /\ Phase = "long_break"
    /\ state.isRunning
    /\ state.timeLeft = SecondsPerMinute * MaxMinutes

\* C12 as stated: in every step, storage events included, no key of byDay
\* is removed, no count decreases, and a count increases only in a
\* completion of a Work phase, for today's key.
C12_Original ==
    [][ \A key \in DOMAIN stats.byDay \cup DOMAIN stats'.byDay :
          /\ key \in DOMAIN stats.byDay => key \in DOMAIN stats'.byDay
          /\ ByDay(stats', key) >= ByDay(stats, key)
          /\ ByDay(stats', key) > ByDay(stats, key) =>
               Completed /\ Phase = "work" /\ key = today ]_vars

\* C12 as amended: the same in every step that is not a storage event; a
\* storage event replaces the in-memory stats by the notified value.
C12_StatsMonotone ==
    [][ IF lastOp' = "storage"
        THEN stats' \in NotifiedStats
        ELSE \A key \in DOMAIN stats.byDay \cup DOMAIN stats'.byDay :
               /\ key \in DOMAIN stats.byDay => key \in DOMAIN stats'.byDay
               /\ ByDay(stats', key) >= ByDay(stats, key)
               /\ ByDay(stats', key) > ByDay(stats, key) =>
                    Completed /\ Phase = "work" /\ key = today ]_vars

C12_Witness ==
    /\ lastOp = "complete"
    /\ nextId = 1
    /\ ByDay(stats, today) = 2
    /\ ByDay(stats, 0) = 0
    /\ Len(stats.history) = 2

\* C18: the in-memory settings always have their three durations in
\* [1, 180] and longBreakInterval >= 1, however they were set: by a save of
\* the dialog, by the first read of storage or by a storage event.
C18_SettingsInRange ==
    /\ settings.workDuration \in DurationMin .. DurationMax
    /\ settings.shortBreakDuration \in DurationMin .. DurationMax
    /\ settings.longBreakDuration \in DurationMin .. DurationMax
    /\ settings.longBreakInterval >= 1

C22_LastWriteWins ==
    (inbox = <<>> /\ peer.inbox = <<>>) =>
        LET written == initialRead(storage[STATS_STORAGE_KEY], defaultStats)
        IN stats = written /\ peer.stats = written

\* C30 as stated: a save the storage refuses leaves the items as they were
\* and the values held in memory as they were before the save.
C30_Original ==
    [][ lastOp' = "refused" =>
          storage' = storage /\ settings' = settings /\ stats' = stats ]_vars

\* C30: a save the storage refuses leaves the items as they were, and the
\* operation completes all the same: the settings held become the ones
\* submitted, or the stats held become those of the setStats updater.
C30_WriteFailure ==
    [][ lastOp' = "refused" =>
          /\ storage' = storage
          /\ \/ /\ nextId' = nextId
                /\ settings' \in PendingSettings(settings)
                /\ state' \in {state, recomputeUpdater(state, settings')}
                /\ stats' = stats
             \/ /\ stats' = statsUpdater(stats, today, nextId + 1, settings)
                /\ nextId' = nextId + 1
                /\ settings' = settings ]_vars

\* no item was found at load; a save of the work duration and the stats
\* of a Work completion were both refused: memory holds the new settings
\* and the new stats, the storage holds nothing
C30_Witness ==
    /\ lastOp = "refused"
    /\ storage[SETTINGS_STORAGE_KEY] = NoItem
    /\ storage[STATS_STORAGE_KEY] = NoItem
    /\ settings = [defaultSettings EXCEPT !.workDuration = MaxMinutes]
    /\ state.timeLeft = SecondsPerMinute * MaxMinutes
    /\ Len(stats.history) = 1
    /\ ByDay(stats, today) = 1

\* C23: the weekly series has 7 points, for 7 consecutive days in ascending
\* order, the last one the day key of the reference date, each with the
\* count recorded under its key or 0.
C23_WeekSeries ==
    LET series == getWeekSeries(stats.byDay, clock)
    IN /\ Len(series) = 7
       /\ \A n \in 1 .. 6 : series[n + 1].key = series[n].key + 1
       /\ series[7].key = todayKey(clock)
       /\ \A n \in 1 .. 7 : series[n].value = ByDay(stats, series[n].key)

\* C24: the streak is the largest k such that the k consecutive days ending
\* at the day key of the reference date all have a count above 0.
C24_Streak ==
    LET ref == todayKey(clock)
        k == calculateStreak(stats.byDay, clock)
    IN /\ \A j \in 0 .. k - 1 : ByDay(stats, ref - j) > 0
       /\ ByDay(stats, ref - k) = 0

RECURSIVE Split(_, _)
\* the pieces of a text between the occurrences of a separator
Split(text, separator) ==
    IF \A i \in 1 .. Len(text) : text[i] # separator THEN <<text>>
    ELSE LET i == CHOOSE i \in 1 .. Len(text) :
                    text[i] = separator /\ \A j \in 1 .. i - 1 : text[j] # separator
         IN <<SubSeq(text, 1, i - 1)>>
            \o Split(SubSeq(text, i + 1, Len(text)), separator)

RECURSIVE NumberOf(_)
\* the number a sequence of digits writes
NumberOf(digits) ==
    IF digits = <<>> THEN 0
    ELSE 10 * NumberOf(SubSeq(digits, 1, Len(digits) - 1))
         + CharRank(digits[Len(digits)]) - 1

\* the day key a YYYY-MM-DD text names
KeyOf(text) ==
    LET parts == Split(text, "-")
        year == NumberOf(parts[1])
        month == NumberOf(parts[2])
        day == NumberOf(parts[3])
    IN IF year = EpochYear /\ month = EpochMonth THEN day - EpochDay
       ELSE IF year = EpochYear + 1 /\ month = 1
            THEN day + DaysInEpochMonth - EpochDay
       ELSE 0 - 1

\* C25: the export is the header row, then one row date,count per key of
\* byDay in ascending order of date, and reading the rows back gives byDay.
C25_Export ==
    LET lines == Split(createCsv(stats), "\n")
        rows == [i \in 1 .. Len(lines) - 1 |-> Split(lines[i + 1], ",")]
        keys == [i \in 1 .. Len(rows) |-> KeyOf(rows[i][1])]
        recovered == [key \in { keys[i] : i \in 1 .. Len(rows) } |->
                        LET i == CHOOSE i \in 1 .. Len(rows) : keys[i] = key
                        IN NumberOf(rows[i][2])]
    IN /\ lines[1] = <<"Date", ",", "Pomodoros Completed">>
       /\ Len(rows) = Cardinality(DOMAIN stats.byDay)
       /\ \A i \in 1 .. Len(rows) : Len(rows[i]) = 2
       /\ \A i \in 1 .. Len(rows) - 1 : keys[i] < keys[i + 1]
       /\ recovered = stats.byDay

\* completions on four days in London, the clocks changed during the
\* second: three keys, 2023-12-31 to 2024-01-02, the middle one counted twice
C25_Witness ==
    /\ lastOp = "complete"
    /\ DOMAIN stats.byDay = {7, 8, 9}
    /\ stats.byDay[8] = 2
    /\ DateText(7) = <<"2", "0", "2", "3", "-", "1", "2", "-", "3", "1">>
    /\ DateText(9) = <<"2", "0", "2", "4", "-", "0", "1", "-", "0", "2">>

\* C26: the progress fraction is a number between 0 and 1 equal to
\* 1 - timeLeft / duration clamped: 0 when timeLeft >= duration (a duration
\* of 0 included), 1 when timeLeft = 0 with duration > 0.
C26_Progress ==
    LET p == progress(state, settings)
        t == state.timeLeft
        d == FullDuration
    IN /\ p.kind = "ratio"
       /\ 0 <= p.num /\ p.num <= p.den
       /\ t < d => p.num * d = (d - t) * p.den
       /\ t >= d => p.num = 0
       /\ (t = 0 /\ d > 0) => p.num = p.den

\* a storage event brought a work duration of 0 while the Work phase was
\* paused: timeLeft and the duration are both 0, and 0 / 0 is NaN
C26_Witness ==
    /\ lastOp = "storage"
    /\ dirty = {}
    /\ Phase = "work"
    /\ settings.workDuration = 0
    /\ state.timeLeft = 0
    /\ Divide(state.timeLeft, FullDuration) = NaN
    /\ progress(state, settings) = Ratio(0, 1)

\* C28: minutesToSeconds(m) is 60 * m for every integer m of 1 .. 180, 0
\* for every negative m, and never negative.
C28_MinutesToSeconds ==
    LET m == settings.workDuration
    IN lastOp = "recompute" =>
         /\ m \in 1 .. 180 => state.timeLeft = 60 * m
         /\ m < 0 => state.timeLeft = 0
         /\ state.timeLeft >= 0

\* the result for -5 minutes
C28_Witness ==
    /\ lastOp = "recompute"
    /\ settings.workDuration = 0 - MaxNegative
    /\ state.timeLeft = 0
    /\ minutesToSeconds(DurationMax) = 10800

\* C29: at load the settings are the persisted ones or, without a usable
\* item, the defaults 25/5/15/4, and the session is in Work, not running,
\* counter 0; the first step is either the effects of the first render,
\* which leave 60 * workDuration seconds, or a command that already found
\* 60 * workDuration seconds.
C29_InitialSession ==
    /\ [](lastOp = "mount" =>
            /\ Phase = "work" /\ ~state.isRunning /\ Counter = 0
            /\ IF storage[SETTINGS_STORAGE_KEY].kind = "json"
               THEN settings = storage[SETTINGS_STORAGE_KEY].value
               ELSE /\ settings.workDuration = 25
                    /\ settings.shortBreakDuration = 5
                    /\ settings.longBreakDuration = 15
                    /\ settings.longBreakInterval = 4)
    /\ [][ lastOp = "mount" =>
             \/ state.timeLeft = 60 * settings.workDuration
             \/ /\ state' = [sessionType |-> "work",
                             timeLeft |-> 60 * settings.workDuration,
                             isRunning |-> FALSE,
                             pomodorosSinceLongBreak |-> 0]
                /\ settings' = settings
                /\ dirty' = {}
                /\ FlushEffects ]_vars

\* C27: no state is terminal (the effects due can run, and once they have
\* the commands are accepted); a running timer leaves every phase it is in,
\* and once started it is in Work again and again and in the long break
\* again and again.
C27_NoTerminalState ==
    /\ [](IF dirty = {} THEN ENABLED ToggleRunning /\ ENABLED ResetTimer
          ELSE ENABLED liveFlush)
    /\ \A p \in SessionTypes : (state.isRunning /\ Phase = p) ~> (Phase # p)
    /\ <>state.isRunning =>
          /\ []<>(Phase = "work" /\ state.isRunning)
          /\ []<>(Phase = "long_break" /\ state.isRunning)

\* back in Work after a long break, running, past the last recorded
\* completion
C27_Witness ==
    /\ lastOp = "complete"
    /\ Phase = "work"
    /\ Counter = 0
    /\ state.isRunning
    /\ nextId = MaxCompletions
    /\ settings.longBreakInterval = MaxInterval
    /\ settings.workDuration = MaxMinutes

\* C31: a tick that finds the timer not running leaves the session state
\* as it is.
C31_StaleTick ==
    [][ (lastOp' = "tick" /\ ~state.isRunning) => state' = state ]_vars

C31_Witness ==
    /\ lastOp = "tick"
    /\ ~state.isRunning
    /\ Phase = "long_break"
    /\ Counter = MaxInterval - 1
    /\ state.timeLeft = SecondsPerMinute * MaxMinutes
    /\ intervalActive

\* C32: whenever toggleRunning or resetTimer is handled, timeLeft is at
\* least 1.
C32_CompletionFirst ==
    [][ (lastOp' # "tick"
         /\ (ToggleRunning \/ ResetTimer \/ toggleBeforeEffects
             \/ resetBeforeEffects))
        => state.timeLeft >= 1 ]_vars

\* C33: the session sendNotification is told about is the session the
\* completion entered, and the title is 'Break complete' exactly when that
\* session is work.
C33_NotifiedPhase ==
    [][ Completed =>
          /\ alerts'.nextSession = state'.sessionType
          /\ alerts'.title # "none" =>
                (alerts'.title = "Break complete") = (state'.sessionType = "work") ]_vars

\* C35: a completion shows a notification only with notificationsEnabled
\* on and the permission granted; with the permission denied or default
\* nothing is shown and the session still advances; requestPermission is
\* called only while the permission is default, never once it is denied.
C35_PermissionGate ==
    [][ /\ (lastOp = "tick" /\ Completed) =>
             /\ alerts'.notification = "shown" =>
                   settings.notificationsEnabled /\ alerts.permission = "granted"
             /\ alerts.permission \in {"denied", "default"} =>
                   /\ alerts'.notification = "skipped"
                   /\ alerts'.title = "none"
                   /\ state'.sessionType # Phase
                   /\ state'.timeLeft > 0
        /\ alerts'.requests > alerts.requests =>
             /\ alerts.permission = "default"
             /\ settings'.notificationsEnabled ]_vars

C35_Witness ==
    /\ lastOp = "complete"
    /\ settings.notificationsEnabled
    /\ alerts.permission = "denied"
    /\ alerts.requests = 1
    /\ alerts.notification = "skipped"
    /\ alerts.nextSession = "long_break"
    /\ Phase = "long_break"

\* C34: the completion of a break leaves the stats as they are; the stats
\* change only by the completion of a work session, which puts one entry of
\* type work in front of the entries there were, themselves unchanged.
C34_OnlyWorkRecorded ==
    [][ IF Completed /\ Phase = "work"
        THEN \/ stats' = stats
             \/ /\ Len(stats'.history) = Len(stats.history) + 1
                /\ Tail(stats'.history) = stats.history
                /\ Head(stats'.history).type = "work"
                /\ Head(stats'.history).id \notin
                     { stats.history[i].id : i \in DOMAIN stats.history }
        ELSE stats' = stats ]_vars

C34_Witness ==
    /\ lastOp = "complete"
    /\ Phase = "work"
    /\ state.isRunning
    /\ Counter = 0
    /\ Len(stats.history) = 1
    /\ stats.history[1].durationMinutes = MaxMinutes
    /\ settings.workDuration = 1

InCycle == Counter <= settings.longBreakInterval - 1

\* C36 as stated: in every state 0 <= counter <= longBreakInterval - 1.
C36_Original == 0 <= Counter /\ InCycle

\* C36 as amended: the counter is never negative; counter <=
\* longBreakInterval - 1 is preserved by every step that does not lower
\* longBreakInterval, and every step that changes the counter establishes it.
C36_CounterInCycle ==
    /\ [](Counter >= 0)
    /\ [][ /\ (InCycle /\ settings'.longBreakInterval >= settings.longBreakInterval)
              => InCycle'
           /\ state'.pomodorosSinceLongBreak # Counter => InCycle' ]_vars

C36_Witness ==
    /\ lastOp = "other"
    /\ dirty = {}
    /\ Counter = MaxInterval - 1
    /\ settings.longBreakInterval = 1
    /\ Phase = "short_break"
    /\ state.isRunning

\* C37: the history has as many entries as completions were counted over
\* all days, up to its cap of 50.
C37_HistoryMatchesTotal ==
    Len(stats.history) = Min(HistoryCap, lifetimeTotal(stats))

C37_Witness ==
    /\ lastOp = "complete"
    /\ Len(stats.history) = HistoryCap
    /\ lifetimeTotal(stats) = HistoryCap + 1
    /\ Cardinality(DOMAIN stats.byDay) = 3
    /\ stats.byDay[today] = 1

\* C38: with timeLeft > 0, toggleRunning changes isRunning and nothing else
\* of the session state, so a pause followed by a start gives the state
\* there was; between the two no tick source is scheduled and no effect is
\* due, and no tick is delivered to a timer that is not running.
C38_PausePreserves ==
    /\ []((~state.isRunning /\ state.timeLeft > 0 /\ lastOp # "mount")
            => (intervals = 0 /\ dirty = {}))
    /\ [][ /\ (/\ lastOp' # "tick"
               /\ state.timeLeft > 0
               /\ dirty = {}
               /\ settings' = settings
               /\ ToggleRunning) =>
                /\ state' = [state EXCEPT !.isRunning = ~state.isRunning]
                /\ toggleUpdater(state', settings') = state
           /\ lastOp' = "tick" => state.isRunning ]_vars

C38_Witness ==
    /\ lastOp = "other"
    /\ ~state.isRunning
    /\ Phase = "short_break"
    /\ state.timeLeft > 1
    /\ state.timeLeft < FullDuration
    /\ FullDuration = SecondsPerMinute
    /\ intervals = 0
    /\ dirty = {}

SameDurations ==
    /\ settings'.workDuration = settings.workDuration
    /\ settings'.shortBreakDuration = settings.shortBreakDuration
    /\ settings'.longBreakDuration = settings.longBreakDuration

\* C39: a save that changes none of the three durations leaves the session
\* state as it is, running or paused; a save that changes the session state
\* changed a duration, found the timer paused and changed timeLeft only.
C39_NonDurationSave ==
    [][ settings' # settings =>
          /\ SameDurations => state' = state
          /\ state' # state =>
                /\ ~SameDurations
                /\ ~state.isRunning
                /\ state' = [state EXCEPT !.timeLeft = state'.timeLeft] ]_vars

C39_Witness ==
    /\ lastOp = "submit"
    /\ ~state.isRunning
    /\ state.timeLeft = 1
    /\ Phase = "long_break"
    /\ FullDuration = SecondsPerMinute * MaxMinutes
    /\ ~settings.soundEnabled
    /\ settings.notificationsEnabled

\* C40: two runs given the same ticks, commands, durations, interval and
\* autoStartNext, but different stats and different sound and notification
\* switches, are in the same session state at every step (and have the
\* same effects due and the same tick sources).
C40_SessionIndependent ==
    /\ peer.c.st = state
    /\ peer.c.d = dirty
    /\ peer.c.ia = intervals
    /\ peer.c.pt = previousTime

C40_Witness ==
    /\ lastOp = "complete"
    /\ Phase = "work"
    /\ Counter = 0
    /\ state.isRunning
    /\ settings.longBreakInterval = MaxInterval
    /\ nextId = 0
    /\ stats = defaultStats
    /\ peer.c.nextId = 2
    /\ Len(peer.c.stats.history) = 2
    /\ ~peer.settings.soundEnabled
    /\ peer.settings.notificationsEnabled

====
